---- MODULE Spec2Model ----
(***************************************************************************)
(* Model of the health tracker's analytics / decision engine               *)
(* (src/src/utils/metrics.ts) over a snapshot of the application state.    *)
(*                                                                         *)
(* Conventions.                                                            *)
(*  - A calendar date 'YYYY-MM-DD' is its day number (an integer); ISO     *)
(*    string order is integer order.  A JavaScript Date is its instant in  *)
(*    hours since the epoch of day 0 (UTC).                                *)
(*  - Measured quantities (kg, cm, pain averages, training loads) are      *)
(*    fixed-point integers in hundredths: 72.4 kg is 7240.  Macro grams,   *)
(*    kcal, sets, reps, set weights, daily pain levels and percentages are *)
(*    whole numbers.                                                       *)
(*  - An absent optional number (undefined / null) is NULL.                *)
(***************************************************************************)
EXTENDS Integers, Sequences, FiniteSets

VARIABLES state, fromDate, tz, out, storage, loaded, draftLog, host, localStore

vars == <<state, fromDate, tz, out, storage, loaded, draftLog, host, localStore>>

\* undefined / null in an optional numeric field (no measured value is negative).
NULL == -999999

\* Number(x.toFixed(2)): two decimals are kept, so values are hundredths.
Scale == 100

(***************************************************************************)
(* The JavaScript Date arithmetic the engine relies on.                    *)
(***************************************************************************)
HoursPerDay == 24

\* Offset of local time from UTC at the UTC instant t, in hours.
Offset(z, t) == IF t >= z.dstStart /\ t < z.dstEnd THEN z.std + 1 ELSE z.std

\* Date.prototype.getDate()/getDay() read the local wall clock.
LocalTime(z, t) == t + Offset(z, t)

\* Local wall clock back to an instant; a skipped or repeated wall-clock hour
\* is read with the offset in force before the transition.
UTC(z, tl) ==
  IF tl < z.dstStart + z.std + 1 THEN tl - z.std
  ELSE IF tl < z.dstEnd + z.std + 1 THEN tl - (z.std + 1)
  ELSE tl - z.std

\* new Date('YYYY-MM-DD'): a date-only string is midnight UTC.
DateOf(day) == day * HoursPerDay

\* date.toISOString().slice(0, 10): the UTC calendar date.
toISODate(t) == t \div HoursPerDay

\* setDate(getDate() + days): moves the local calendar day, keeps the wall clock.
addDays(z, date, days) == UTC(z, LocalTime(z, date) + days * HoursPerDay)

getRange(z, days, from) ==
  [start |-> toISODate(addDays(z, from, -(days - 1))), end |-> toISODate(from)]

isInRange(date, start, end) == date >= start /\ date <= end

(***************************************************************************)
(* Numeric helpers.                                                        *)
(***************************************************************************)
Abs(x) == IF x < 0 THEN -x ELSE x

Max2(a, b) == IF a >= b THEN a ELSE b

Min2(a, b) == IF a <= b THEN a ELSE b

clamp(value, min, max) == Max2(min, Min2(max, value))

\* n / d rounded to the nearest integer, halves away from zero (toFixed).
RoundDiv(n, d) ==
  IF n >= 0 THEN (2 * n + d) \div (2 * d) ELSE -((2 * (-n) + d) \div (2 * d))

\* Math.round(n / d): halves towards +Infinity.
MathRound(n, d) == (2 * n + d) \div (2 * d)

RECURSIVE SumSeq(_)
SumSeq(s) == IF s = <<>> THEN 0 ELSE Head(s) + SumSeq(Tail(s))

MapSeq(s, F(_)) == [i \in 1..Len(s) |-> F(s[i])]

isNumber(v) == v # NULL

\* [...rows].sort((a, b) => b[key].localeCompare(a[key])) when descending,
\* a[key].localeCompare(b[key]) otherwise.  The sort is stable: a row is
\* inserted after every row that does not have to come after it.
RECURSIVE InsertSorted(_, _, _, _)
InsertSorted(s, x, key, descending) ==
  IF s = <<>> THEN <<x>>
  ELSE IF (IF descending THEN x[key] > Head(s)[key] ELSE x[key] < Head(s)[key])
       THEN <<x>> \o s
       ELSE <<Head(s)>> \o InsertSorted(Tail(s), x, key, descending)

RECURSIVE sortBy(_, _, _)
sortBy(s, key, descending) ==
  IF s = <<>> THEN <<>>
  ELSE InsertSorted(sortBy(SubSeq(s, 1, Len(s) - 1), key, descending),
                    s[Len(s)], key, descending)

\* Array.prototype.find on a numeric field: the value of `field` in the first
\* row where it is a number, or NULL when no row has one.
findNumber(s, field) ==
  IF \E i \in 1..Len(s) : isNumber(s[i][field])
  THEN s[CHOOSE i \in 1..Len(s) :
           isNumber(s[i][field]) /\ \A j \in 1..(i - 1) : ~isNumber(s[j][field])][field]
  ELSE NULL

some(s, Test(_)) == \E i \in 1..Len(s) : Test(s[i])

RECURSIVE flatten(_)
flatten(ss) == IF ss = <<>> THEN <<>> ELSE Head(ss) \o flatten(Tail(ss))

(***************************************************************************)
(* Program constants (constants.ts).                                       *)
(***************************************************************************)
CORE_EXERCISE_IDS == <<"jalon", "remo", "laterales", "press_inclinado">>

DAY_TARGETS ==
  [gym   |-> [kcal |-> 2200, p |-> 150, f |-> 60, c |-> 250],
   nogym |-> [kcal |-> 2000, p |-> 150, f |-> 70, c |-> 170]]

\* Least common multiple of the four targets of a day type: the common
\* denominator of the four closeness ratios.
TargetLcm == [gym |-> 33000, nogym |-> 714000]

(***************************************************************************)
(* Totals and adherence.                                                   *)
(***************************************************************************)
\* Mutant: negative entries are left out of the totals.
getDailyTotals_nonNegative(log) ==
  [p    |-> SumSeq(MapSeq(log.meals, LAMBDA m : Max2(m.p, 0))),
   f    |-> SumSeq(MapSeq(log.meals, LAMBDA m : Max2(m.f, 0))),
   c    |-> SumSeq(MapSeq(log.meals, LAMBDA m : Max2(m.c, 0))),
   kcal |-> SumSeq(MapSeq(log.meals, LAMBDA m : Max2(m.kcal, 0)))]

getDailyTotals(log) ==
  [p    |-> SumSeq(MapSeq(log.meals, LAMBDA m : m.p)),
   f    |-> SumSeq(MapSeq(log.meals, LAMBDA m : m.f)),
   c    |-> SumSeq(MapSeq(log.meals, LAMBDA m : m.c)),
   kcal |-> SumSeq(MapSeq(log.meals, LAMBDA m : m.kcal))]

getSetExerciseId(set) ==
  IF set.exerciseId # "" THEN set.exerciseId ELSE set.exercise

\* closeness(actual, target) as the numerator of a fraction over `target`:
\* clamp(1 - |actual - target| / target, 0, 1) * target.
closeness(actual, target) ==
  IF target <= 0 THEN target
  ELSE clamp(target - Abs(actual - target), 0, target)

\* Mutant: meal items are counted instead of meal slots.
mealsCompleted_items(log) == Min2(Len(log.meals), 3)

\* The three meal slots that have at least one item.
mealsCompleted(log) ==
  Cardinality({slot \in {"desayuno", "comida", "cena"} :
                 some(log.meals, LAMBDA m : m.meal = slot)})

\* macroScore * 20 * L, L the common denominator of the day type's targets.
macroScore(log) ==
  LET totals == getDailyTotals(log)
      target == DAY_TARGETS[log.dayType]
      L == TargetLcm[log.dayType]
  IN  9 * closeness(totals.p, target.p) * (L \div target.p)
    + 4 * closeness(totals.f, target.f) * (L \div target.f)
    + 4 * closeness(totals.c, target.c) * (L \div target.c)
    + 3 * closeness(totals.kcal, target.kcal) * (L \div target.kcal)

\* (mealScore * 0.35 + macroScore * 0.65) * 100
\*   = (140 * completed * L + 39 * macroScore20L) / (12 * L).
computeDayAdherence(log) ==
  LET L == TargetLcm[log.dayType]
      completed == mealsCompleted(log)
  IN  [nutritionPercent |->
         clamp(MathRound(140 * completed * L + 39 * macroScore(log), 12 * L), 0, 100),
       kpiFlags |->
         {slot \in {"desayuno", "comida", "cena"} :
            ~some(log.meals, LAMBDA m : m.meal = slot)}]

(***************************************************************************)
(* Range filter and fallback resolver.                                     *)
(***************************************************************************)
filterRange(logs, range) ==
  SelectSeq(logs, LAMBDA log : isInRange(log.date, range.start, range.end))

filterWeeklyRange(weeks, range) ==
  SelectSeq(weeks, LAMBDA week : isInRange(week.weekStart, range.start, range.end))

\* Number((sum / length).toFixed(2)), 0 for an empty list.
average(values) ==
  IF Len(values) = 0 THEN 0 ELSE RoundDiv(SumSeq(values), Len(values))

lastNumberFor(rows, field) ==
  LET reversed == sortBy(rows, "date", TRUE)
  IN  findNumber(reversed, field)

lastWeeklyNumber(rows, field) ==
  LET reversed == sortBy(rows, "weekStart", TRUE)
  IN  findNumber(reversed, field)

avgByField(rows, field) ==
  average(MapSeq(SelectSeq(rows, LAMBDA row : isNumber(row[field])),
                 LAMBDA row : row[field]))

avgWeeklyByField(rows, field) ==
  average(MapSeq(SelectSeq(rows, LAMBDA row : isNumber(row[field])),
                 LAMBDA row : row[field]))

\* Mutant: a stored 0 in the weekly rows is taken for absence.
latestFromWeeklyOrDaily_truthy(weeklyRows, dailyRows, weeklyField, dailyField) ==
  LET weeklyValue == lastWeeklyNumber(weeklyRows, weeklyField)
  IN  IF weeklyValue # NULL /\ weeklyValue # 0 THEN weeklyValue
      ELSE lastNumberFor(dailyRows, dailyField)

latestFromWeeklyOrDaily(weeklyRows, dailyRows, weeklyField, dailyField) ==
  LET weeklyValue == lastWeeklyNumber(weeklyRows, weeklyField)
  IN  IF weeklyValue # NULL THEN weeklyValue
      ELSE lastNumberFor(dailyRows, dailyField)

\* Mutant: weekly and daily values are averaged together.
avgFromWeeklyOrDaily_mixed(weeklyRows, dailyRows, weeklyField, dailyField) ==
  average(MapSeq(SelectSeq(weeklyRows, LAMBDA row : isNumber(row[weeklyField])),
                 LAMBDA row : row[weeklyField])
          \o MapSeq(SelectSeq(dailyRows, LAMBDA row : isNumber(row[dailyField])),
                    LAMBDA row : row[dailyField]))

avgFromWeeklyOrDaily(weeklyRows, dailyRows, weeklyField, dailyField) ==
  LET hasWeeklyValue == some(weeklyRows, LAMBDA row : isNumber(row[weeklyField]))
  IN  IF hasWeeklyValue THEN avgWeeklyByField(weeklyRows, weeklyField)
      ELSE avgByField(dailyRows, dailyField)

lumbarAvg(rows) == average(MapSeq(rows, LAMBDA row : row.lumbarPain * Scale))

latestWeeklyPainAverage(rows) ==
  LET values == MapSeq(SelectSeq(rows, LAMBDA row : isNumber(row.avgLumbarPain)),
                       LAMBDA row : row.avgLumbarPain)
  IN  IF Len(values) = 0 THEN NULL ELSE average(values)

(***************************************************************************)
(* Pain-spike detector.                                                    *)
(***************************************************************************)
PainThreshold == 7

MinStreak == 3

isNextDay(z, a, b) == toISODate(addDays(z, DateOf(a), 1)) = b

\* The for-loop of hasConsecutivePainSpike from row i on, with the values of
\* `run` and `lastDate` on entry.
RECURSIVE painLoop(_, _, _, _, _, _, _)
painLoop(z, ordered, i, run, lastDate, threshold, minStreak) ==
  IF i > Len(ordered) THEN FALSE
  ELSE LET row == ordered[i]
           run1 == IF row.lumbarPain >= threshold
                   THEN IF lastDate # NULL /\ isNextDay(z, lastDate, row.date)
                        THEN run + 1 ELSE 1
                   ELSE 0
       IN  IF row.lumbarPain >= threshold /\ run1 >= minStreak THEN TRUE
           ELSE painLoop(z, ordered, i + 1, run1, row.date, threshold, minStreak)

hasConsecutivePainSpike(z, rows) ==
  LET ordered == sortBy(rows, "date", FALSE)
  IN  IF Len(ordered) = 0 THEN FALSE
      ELSE painLoop(z, ordered, 1, 0, NULL, PainThreshold, MinStreak)

\* Mutant: a weekly average of exactly the threshold does not count.
weekHasHighPain_strict(rows) ==
  some(rows, LAMBDA row : row.avgLumbarPain # NULL
                          /\ row.avgLumbarPain > PainThreshold * Scale)

weekHasHighPain(rows) ==
  some(rows, LAMBDA row : row.avgLumbarPain # NULL
                          /\ row.avgLumbarPain >= PainThreshold * Scale)

(***************************************************************************)
(* Performance index.                                                      *)
(***************************************************************************)
RECURSIVE maxLoad(_, _)
maxLoad(sets, acc) ==
  IF sets = <<>> THEN acc
  ELSE maxLoad(Tail(sets), Max2(acc, Head(sets).sets * Head(sets).reps * Head(sets).weightKg))

\* Best load of one log for the exercise, 0 when the log has no such set.
dayBest(log, exercise) ==
  maxLoad(SelectSeq(flatten(MapSeq(log.workout, LAMBDA session : session.sets)),
                    LAMBDA set : getSetExerciseId(set) = exercise), 0)

\* groupedByDate as the list of its entries in insertion order.
RECURSIVE groupByDate(_, _, _)
groupByDate(rows, exercise, grouped) ==
  IF rows = <<>> THEN grouped
  ELSE LET day == Head(rows).date
           best == dayBest(Head(rows), exercise)
           next ==
             IF best <= 0 THEN grouped
             ELSE IF \E k \in 1..Len(grouped) : grouped[k].day = day
                  THEN [k \in 1..Len(grouped) |->
                          IF grouped[k].day = day
                          THEN [day |-> day, best |-> Max2(grouped[k].best, best)]
                          ELSE grouped[k]]
                  ELSE Append(grouped, [day |-> day, best |-> best])
       IN  groupByDate(Tail(rows), exercise, next)

getExerciseBest(rows, exercise) ==
  average(MapSeq(groupByDate(rows, exercise, <<>>), LAMBDA e : e.best * Scale))

RECURSIVE GCD(_, _)
GCD(a, b) == IF b = 0 THEN Abs(a) ELSE GCD(b, a % b)

\* A fraction n / d in lowest terms, d > 0.
Rat(n, d) == LET g == GCD(Abs(n), d) IN [n |-> n \div g, d |-> d \div g]

RatAdd(x, y) == Rat(x.n * y.d + y.n * x.d, x.d * y.d)

RECURSIVE RatSum(_)
RatSum(s) == IF s = <<>> THEN Rat(0, 1) ELSE RatAdd(Head(s), RatSum(Tail(s)))

\* Mutant: the mean is taken over the exercises that have a nonzero best in
\* both windows only.
performanceIndex_comparableOnly(z, st, from) ==
  LET currentWindow == filterRange(st.logs, getRange(z, 7, from))
      previousWindow == filterRange(st.logs, getRange(z, 7, addDays(z, from, -7)))
      keys == SelectSeq(CORE_EXERCISE_IDS,
                        LAMBDA key : /\ getExerciseBest(currentWindow, key) # 0
                                     /\ getExerciseBest(previousWindow, key) # 0)
      diffs == [k \in 1..Len(keys) |->
                 Rat(getExerciseBest(currentWindow, keys[k])
                       - getExerciseBest(previousWindow, keys[k]),
                     getExerciseBest(previousWindow, keys[k]))]
      total == RatSum(diffs)
  IN  IF Len(diffs) = 0 THEN 0
      ELSE RoundDiv(total.n * 1000, total.d * Len(diffs))

\* The index in thousandths: Number((sum / diffs.length).toFixed(3)).
performanceIndex(z, st, from) ==
  LET currentWindow == filterRange(st.logs, getRange(z, 7, from))
      previousWindow == filterRange(st.logs, getRange(z, 7, addDays(z, from, -7)))
      diffs == [k \in 1..Len(CORE_EXERCISE_IDS) |->
                 LET current == getExerciseBest(currentWindow, CORE_EXERCISE_IDS[k])
                     previous == getExerciseBest(previousWindow, CORE_EXERCISE_IDS[k])
                 IN  IF previous = 0 \/ current = 0 THEN Rat(0, 1)
                     ELSE Rat(current - previous, previous)]
      total == RatSum(diffs)
  IN  IF Len(diffs) = 0 THEN 0
      ELSE RoundDiv(total.n * 1000, total.d * Len(diffs))

(***************************************************************************)
(* Decision engine.                                                        *)
(***************************************************************************)
\* Mutant: a window without logs counts as fully adherent.
windowAdherence_emptyFull(rows) ==
  IF Len(rows) > 0
  THEN MathRound(SumSeq(MapSeq(rows, LAMBDA log : computeDayAdherence(log).nutritionPercent)),
                 Len(rows))
  ELSE 100

\* Mean of the per-day nutritionPercent of the rows, rounded; 0 for no rows.
windowAdherence(rows) ==
  IF Len(rows) > 0
  THEN MathRound(SumSeq(MapSeq(rows, LAMBDA log : computeDayAdherence(log).nutritionPercent)),
                 Len(rows))
  ELSE 0

\* Mutant: a missing waist counts as not improved.
waistNotDown_unknownCounts(thisWaist, prevWaist) ==
  IF thisWaist # NULL /\ prevWaist # NULL THEN thisWaist >= prevWaist ELSE TRUE

\* Mutant: equality of the two waists no longer counts as not improved.
waistNotDown_strict(thisWaist, prevWaist) ==
  IF thisWaist # NULL /\ prevWaist # NULL THEN thisWaist > prevWaist ELSE FALSE

\* thisWaist != null && prevWaist != null ? thisWaist >= prevWaist : false
waistNotDown(thisWaist, prevWaist) ==
  IF thisWaist # NULL /\ prevWaist # NULL THEN thisWaist >= prevWaist ELSE FALSE

\* Mutant: a missing weight average counts as not improved.
weightNotDown_unknownCounts(thisWeight, prevWeight) ==
  IF thisWeight # 0 /\ prevWeight # 0 THEN thisWeight >= prevWeight ELSE TRUE

\* thisWeight && prevWeight ? thisWeight >= prevWeight : false
\* (an average of 0, which is also the average of no values, is falsy).
weightNotDown(thisWeight, prevWeight) ==
  IF thisWeight # 0 /\ prevWeight # 0 THEN thisWeight >= prevWeight ELSE FALSE

\* prevWeight ? prevWeight - thisWeight : 0
weightDrop(thisWeight, prevWeight) ==
  IF prevWeight # 0 THEN prevWeight - thisWeight ELSE 0

\* Mutant: the calorie-reduction rule is tried before the deload rule.
decisionFor_trendFirst(hasHighPain, waistFlat, weightFlat, adherence, drop, perf) ==
  IF waistFlat /\ weightFlat /\ adherence >= 80
  THEN [decision |-> "down150kcal", reason |-> "No baja cintura ni peso"]
  ELSE IF hasHighPain
  THEN [decision |-> "deload", reason |-> "Dolor lumbar alto"]
  ELSE IF drop > 60 \/ perf < -50
  THEN [decision |-> "up125kcal", reason |-> "Perdida de >0.6kg/semana"]
  ELSE [decision |-> "none", reason |-> "Sin ajuste automatico"]

\* Mutant: the performance threshold is inclusive.
decisionFor_perfInclusive(hasHighPain, waistFlat, weightFlat, adherence, drop, perf) ==
  IF hasHighPain
  THEN [decision |-> "deload", reason |-> "Dolor lumbar alto"]
  ELSE IF waistFlat /\ weightFlat /\ adherence >= 80
  THEN [decision |-> "down150kcal", reason |-> "No baja cintura ni peso"]
  ELSE IF drop > 60 \/ perf <= -50
  THEN [decision |-> "up125kcal", reason |-> "Perdida de >0.6kg/semana"]
  ELSE [decision |-> "none", reason |-> "Sin ajuste automatico"]

\* Mutant: the weight-drop threshold is inclusive.
decisionFor_dropInclusive(hasHighPain, waistFlat, weightFlat, adherence, drop, perf) ==
  IF hasHighPain
  THEN [decision |-> "deload", reason |-> "Dolor lumbar alto"]
  ELSE IF waistFlat /\ weightFlat /\ adherence >= 80
  THEN [decision |-> "down150kcal", reason |-> "No baja cintura ni peso"]
  ELSE IF drop >= 60 \/ perf < -50
  THEN [decision |-> "up125kcal", reason |-> "Perdida de >0.6kg/semana"]
  ELSE [decision |-> "none", reason |-> "Sin ajuste automatico"]

\* The rule chain of decide, first match wins; weights in hundredths of a kg,
\* the performance index in thousandths.
decisionFor(hasHighPain, waistFlat, weightFlat, adherence, drop, perf) ==
  IF hasHighPain
  THEN [decision |-> "deload",
        reason |-> "Dolor lumbar alto (semanal o diario). Aplicar deload 30-40%"]
  ELSE IF waistFlat /\ weightFlat /\ adherence >= 80
  THEN [decision |-> "down150kcal",
        reason |-> "No baja cintura ni peso, adherencia >=80. -150 kcal o +2000 pasos"]
  ELSE IF drop > 60 \/ perf < -50
  THEN [decision |-> "up125kcal",
        reason |-> "Perdida de >0.6kg/semana o descenso de rendimiento. +100/125 kcal"]
  ELSE [decision |-> "none",
        reason |-> "Sin ajuste automatico en esta quincena."]

decide(z, st, from) ==
  LET this14 == filterRange(st.logs, getRange(z, 14, from))
      prev14 == filterRange(st.logs, getRange(z, 14, addDays(z, from, -14)))
      this14Weekly == filterWeeklyRange(st.weeklyMeasurements, getRange(z, 14, from))
      prev14Weekly == filterWeeklyRange(st.weeklyMeasurements,
                                        getRange(z, 14, addDays(z, from, -14)))
      hasHighPain == weekHasHighPain(this14Weekly) \/ hasConsecutivePainSpike(z, this14)
      thisWaist == latestFromWeeklyOrDaily(this14Weekly, this14, "waistCm", "waistCm")
      prevWaist == latestFromWeeklyOrDaily(prev14Weekly, prev14, "waistCm", "waistCm")
      thisWeight == avgFromWeeklyOrDaily(this14Weekly, this14, "avgWeightKg", "weightKg")
      prevWeight == avgFromWeeklyOrDaily(prev14Weekly, prev14, "avgWeightKg", "weightKg")
      adherence == windowAdherence(this14)
      perf == performanceIndex(z, st, from)
  IN  decisionFor(hasHighPain, waistNotDown(thisWaist, prevWaist),
                  weightNotDown(thisWeight, prevWeight), adherence,
                  weightDrop(thisWeight, prevWeight), perf)

(***************************************************************************)
(* KPI summary builder.                                                    *)
(***************************************************************************)
countNumbers(rows, field) == Len(SelectSeq(rows, LAMBDA row : isNumber(row[field])))

calculateKpis(z, st, from) ==
  LET rows7 == filterRange(st.logs, getRange(z, 7, from))
      rows14 == filterRange(st.logs, getRange(z, 14, from))
      prev7 == filterRange(st.logs, getRange(z, 7, addDays(z, from, -7)))
      prev14 == filterRange(st.logs, getRange(z, 14, addDays(z, from, -14)))
      weekly7 == filterWeeklyRange(st.weeklyMeasurements, getRange(z, 7, from))
      weekly14 == filterWeeklyRange(st.weeklyMeasurements, getRange(z, 14, from))
      prevWeekly7 == filterWeeklyRange(st.weeklyMeasurements,
                                       getRange(z, 7, addDays(z, from, -7)))
      prevWeekly14 == filterWeeklyRange(st.weeklyMeasurements,
                                        getRange(z, 14, addDays(z, from, -14)))
      waist7 == latestFromWeeklyOrDaily(weekly7, rows7, "waistCm", "waistCm")
      waist14 == latestFromWeeklyOrDaily(weekly14, rows14, "waistCm", "waistCm")
      waist7Prev == latestFromWeeklyOrDaily(prevWeekly7, prev7, "waistCm", "waistCm")
      waist14Prev == latestFromWeeklyOrDaily(prevWeekly14, prev14, "waistCm", "waistCm")
      pain7 == latestWeeklyPainAverage(weekly7)
      pain14 == latestWeeklyPainAverage(weekly14)
      decided == decide(z, st, from)
  IN  [kpis7 |->
         [avgWeight |-> avgFromWeeklyOrDaily(weekly7, rows7, "avgWeightKg", "weightKg"),
          waist |-> waist7,
          waistTrend |-> IF waist7 # NULL /\ waist7Prev # NULL
                         THEN waist7 - waist7Prev ELSE NULL,
          lumbar |-> IF pain7 # NULL THEN pain7
                     ELSE IF Len(rows7) > 0 THEN lumbarAvg(rows7) ELSE 0,
          adherence |-> windowAdherence(rows7),
          weightPoints |-> countNumbers(weekly7, "avgWeightKg") + countNumbers(rows7, "weightKg"),
          waistPoints |-> countNumbers(weekly7, "waistCm") + countNumbers(rows7, "waistCm")],
       kpis14 |->
         [avgWeight |-> avgFromWeeklyOrDaily(weekly14, rows14, "avgWeightKg", "weightKg"),
          waist |-> waist14,
          waistTrend |-> IF waist14 # NULL /\ waist14Prev # NULL
                         THEN waist14 - waist14Prev ELSE NULL,
          lumbar |-> IF pain14 # NULL THEN pain14
                     ELSE IF Len(rows14) > 0 THEN lumbarAvg(rows14) ELSE 0,
          adherence |-> windowAdherence(rows14),
          perfIndex |-> performanceIndex(z, st, from),
          decision |-> decided.decision,
          reason |-> decided.reason]]

(***************************************************************************)
(* Bounded inputs: time zones, reference dates, logs, weekly measurements. *)
(***************************************************************************)
\* Largest number of daily logs and of weekly measurements in a snapshot.
MaxLogs == 3

MaxWeekly == 1

\* Last calendar day of the model; reference dates are the last two days, so
\* that both 14-day windows start at day 0 or later.
LastDay == 29

\* The day on which the zone with a spring transition moves its clock forward,
\* and the day on which the zone with an autumn transition moves it back
\* (both at 01:00 UTC, as in Europe/Madrid).
SpringDay == LastDay - 1

FallDay == LastDay - 8

Never == 1000 * HoursPerDay

TimeZones ==
  { [name |-> "UTC", std |-> 0, dstStart |-> Never, dstEnd |-> Never],
    [name |-> "Europe/Madrid (spring)", std |-> 1,
     dstStart |-> DateOf(SpringDay) + 1, dstEnd |-> Never],
    [name |-> "Europe/Madrid (autumn)", std |-> 1,
     dstStart |-> -Never, dstEnd |-> DateOf(FallDay) + 1] }

RefDates == {LastDay - 1, LastDay}

mkMeal(meal, p, f, c, kcal) == [meal |-> meal, p |-> p, f |-> f, c |-> c, kcal |-> kcal]

NoMeals == <<>>

\* All three slots filled, every total on the nogym target: 100 percent.
FullMeals ==
  << mkMeal("desayuno", 50, 25, 50, 650), mkMeal("comida", 50, 25, 60, 750),
     mkMeal("cena", 50, 20, 60, 600) >>

\* All three slots filled, protein and fat on target, carbohydrate and kcal
\* far off: 80 percent and 79 percent.
Meals80 ==
  << mkMeal("desayuno", 50, 25, 34, 0), mkMeal("comida", 50, 25, 0, 0),
     mkMeal("cena", 50, 20, 0, 0) >>

Meals79 ==
  << mkMeal("desayuno", 50, 25, 17, 0), mkMeal("comida", 50, 25, 0, 0),
     mkMeal("cena", 50, 20, 0, 0) >>

mkSet(exerciseId, exercise, sets, reps, weightKg) ==
  [exerciseId |-> exerciseId, exercise |-> exercise,
   sets |-> sets, reps |-> reps, weightKg |-> weightKg]

\* One session per day, as createEmptyLog builds it.
NoWorkout == << [sets |-> <<>>] >>

Workout(load) ==
  << [sets |-> << mkSet("prensa", "", 3, 10, 50), mkSet("jalon", "", 1, load, 1) >>] >>

LegacyWorkout(load) == << [sets |-> << mkSet("", "jalon", 1, 1, load) >>] >>

mkLog(date, weightKg, waistCm, lumbarPain, meals, workout) ==
  [date |-> date, dayType |-> "nogym", weightKg |-> weightKg, waistCm |-> waistCm,
   lumbarPain |-> lumbarPain, meals |-> meals, workout |-> workout]

mkWeekly(weekStart, avgWeightKg, waistCm, avgLumbarPain) ==
  [weekStart |-> weekStart, avgWeightKg |-> avgWeightKg, waistCm |-> waistCm,
   avgLumbarPain |-> avgLumbarPain]

\* Every list that takes at most one row from each slot, in slot order.
RECURSIVE Picks(_)
Picks(slots) ==
  IF slots = <<>> THEN {<<>>}
  ELSE LET rest == Picks(Tail(slots))
       IN  rest \cup {<<row>> \o r : row \in Head(slots), r \in rest}

\* Logs of the decision scenarios, stored out of date order: a recent day with
\* measurements and training; a day of the prior window with measurements; a
\* day of the previous training week with meals; an old day.
TrendLogSlots ==
  << { mkLog(27, w, c, 0, Meals79, t) :
         w \in {NULL, 7240, 7300}, c \in {NULL, 8700, 8800},
         t \in {NoWorkout, Workout(80), LegacyWorkout(78)} },
     { mkLog(14, w, c, 0, NoMeals, NoWorkout) :
         w \in {NULL, 7240, 7300}, c \in {NULL, 8800} },
     { mkLog(20, NULL, NULL, 0, m, Workout(100)) : m \in {Meals79, Meals80, FullMeals} },
     { mkLog(2, 7300, 8800, 7, FullMeals, Workout(100)) } >>

TrendWeeklySlots ==
  << { mkWeekly(22, w, NULL, q) : w \in {NULL, 7220}, q \in {NULL, 700} },
     { mkWeekly(8, 7300, NULL, NULL) } >>

\* Logs of the pain scenarios: four consecutive days up to the last day, each
\* with pain just below or on the threshold, stored out of date order, and a
\* day of the prior window.  The logs of one snapshot share their other fields.
PainLogSlots(w, c, m) ==
  << { mkLog(LastDay - 1, w, c, q, m, NoWorkout) : q \in {6, 7} },
     { mkLog(LastDay - 3, w, c, q, m, NoWorkout) : q \in {6, 7} },
     { mkLog(LastDay, w, c, q, m, NoWorkout) : q \in {6, 7} },
     { mkLog(LastDay - 2, w, c, q, m, NoWorkout) : q \in {6, 7} },
     { mkLog(LastDay - 15, w, c, 7, m, NoWorkout) } >>

PainWeeklySlots ==
  << { mkWeekly(22, NULL, NULL, q) : q \in {NULL, 650, 700} },
     { mkWeekly(8, NULL, NULL, 700) },
     { mkWeekly(15, NULL, NULL, 1000) } >>

\* Rows of the resolver scenarios: weekly and daily weights.
ResolverLogSlots ==
  << { mkLog(27, w, NULL, 0, NoMeals, NoWorkout) : w \in {NULL, 7240, 7300} },
     { mkLog(25, w, NULL, 0, NoMeals, NoWorkout) : w \in {NULL, 7240, 7310} },
     { mkLog(28, w, NULL, 0, NoMeals, NoWorkout) : w \in {NULL, 7100} },
     { mkLog(20, 7000, NULL, 0, NoMeals, NoWorkout) } >>

ResolverWeeklySlots ==
  << { mkWeekly(22, w, NULL, NULL) : w \in {NULL, 7220, 7300} },
     { mkWeekly(15, w, NULL, NULL) : w \in {NULL, 7250} },
     { mkWeekly(8, 7400, NULL, NULL) } >>

Snapshots(logSlots, weeklySlots) ==
  [logs : {l \in Picks(logSlots) : Len(l) <= MaxLogs},
   weeklyMeasurements : {w \in Picks(weeklySlots) : Len(w) <= MaxWeekly}]

NoOut == [fn |-> "none"]

\* draftByDate without entries: the object {}.
NoDrafts == [date \in {} |-> NULL]

\* The persisted copy of the state: nothing has been stored.  The engine is
\* applied to the state of an app that has finished loading.
NoStorage ==
  [present |-> FALSE, logs |-> <<>>, weeklyMeasurements |-> <<>>, draftByDate |-> NoDrafts]

\* The form is not in use: no draft log, no timers and no pending saves.
NoDraft == [date |-> NULL]

NoHost == [idle |-> TRUE]

TypeOK ==
  /\ tz \in TimeZones
  /\ fromDate \in RefDates
  /\ out.fn \in {"none", "decide", "calculateKpis", "hasConsecutivePainSpike",
                  "avgFromWeeklyOrDaily", "latestFromWeeklyOrDaily",
                  "performanceIndex", "getDailyTotals", "computeDayAdherence",
                  "getRange", "filterRange", "toCsv",
                  "load", "save", "saveWeekly", "importJson"}
  /\ loaded \in BOOLEAN

Init ==
  /\ tz \in TimeZones
  /\ fromDate \in RefDates
  /\ state \in Snapshots(TrendLogSlots, TrendWeeklySlots)
  /\ out = NoOut
  /\ storage = NoStorage
  /\ loaded = TRUE
  /\ draftLog = NoDraft
  /\ host = NoHost
  /\ localStore = NoStorage

InitPain ==
  /\ tz \in TimeZones
  /\ fromDate \in RefDates
  /\ \E p \in {<<NULL, NULL, NoMeals>>, <<7240, 8800, FullMeals>>} :
        state \in Snapshots(PainLogSlots(p[1], p[2], p[3]), PainWeeklySlots)
  /\ out = NoOut
  /\ storage = NoStorage
  /\ loaded = TRUE
  /\ draftLog = NoDraft
  /\ host = NoHost
  /\ localStore = NoStorage

InitResolver ==
  /\ tz \in TimeZones
  /\ fromDate = LastDay
  /\ state \in Snapshots(ResolverLogSlots, ResolverWeeklySlots)
  /\ out = NoOut
  /\ storage = NoStorage
  /\ loaded = TRUE
  /\ draftLog = NoDraft
  /\ host = NoHost
  /\ localStore = NoStorage

(***************************************************************************)
(* Operations: the engine is applied once to the snapshot for the active   *)
(* date, calculateKpis(state, new Date(activeDate)).                       *)
(***************************************************************************)
This14 == filterRange(state.logs, getRange(tz, 14, DateOf(fromDate)))

Prev14 ==
  filterRange(state.logs, getRange(tz, 14, addDays(tz, DateOf(fromDate), -14)))

This14Weekly ==
  filterWeeklyRange(state.weeklyMeasurements, getRange(tz, 14, DateOf(fromDate)))

Prev14Weekly ==
  filterWeeklyRange(state.weeklyMeasurements,
                    getRange(tz, 14, addDays(tz, DateOf(fromDate), -14)))

Decide ==
  /\ out = NoOut
  /\ out' = [fn |-> "decide", val |-> decide(tz, state, DateOf(fromDate))]
  /\ UNCHANGED <<state, fromDate, tz, storage, loaded, draftLog, host, localStore>>

CalculateKpis ==
  /\ out = NoOut
  /\ out' = [fn |-> "calculateKpis", val |-> calculateKpis(tz, state, DateOf(fromDate))]
  /\ UNCHANGED <<state, fromDate, tz, storage, loaded, draftLog, host, localStore>>

HasConsecutivePainSpike ==
  /\ out = NoOut
  /\ out' = [fn |-> "hasConsecutivePainSpike",
             val |-> hasConsecutivePainSpike(tz, state.logs)]
  /\ UNCHANGED <<state, fromDate, tz, storage, loaded, draftLog, host, localStore>>

AvgFromWeeklyOrDaily ==
  /\ out = NoOut
  /\ out' = [fn |-> "avgFromWeeklyOrDaily",
             val |-> avgFromWeeklyOrDaily(state.weeklyMeasurements, state.logs,
                                          "avgWeightKg", "weightKg")]
  /\ UNCHANGED <<state, fromDate, tz, storage, loaded, draftLog, host, localStore>>

Next == Decide \/ CalculateKpis

NextPain == Decide \/ HasConsecutivePainSpike

NextResolver == AvgFromWeeklyOrDaily

Spec == Init /\ [][Next]_vars

SpecPain == InitPain /\ [][NextPain]_vars

SpecResolver == InitResolver /\ [][NextResolver]_vars

(***************************************************************************)
(* What a snapshot holds, read off its rows, and what the engine returned. *)
(***************************************************************************)
hasDaily(rows, field) == \E i \in 1..Len(rows) : rows[i][field] # NULL

\* A waist value exists in the window, weekly or daily.
WaistKnown(weekly, daily) == hasDaily(weekly, "waistCm") \/ hasDaily(daily, "waistCm")

\* A weight value exists in the window: weekly avgWeightKg or daily weightKg.
WeightKnown(weekly, daily) ==
  hasDaily(weekly, "avgWeightKg") \/ hasDaily(daily, "weightKg")

ThisWaist == latestFromWeeklyOrDaily(This14Weekly, This14, "waistCm", "waistCm")

PrevWaist == latestFromWeeklyOrDaily(Prev14Weekly, Prev14, "waistCm", "waistCm")

ThisWeight == avgFromWeeklyOrDaily(This14Weekly, This14, "avgWeightKg", "weightKg")

PrevWeight == avgFromWeeklyOrDaily(Prev14Weekly, Prev14, "avgWeightKg", "weightKg")

Adherence14 == windowAdherence(This14)

Perf == performanceIndex(tz, state, DateOf(fromDate))

\* The Pain-Spike Detector on the 14-day window ending on the reference date.
PainSpike == weekHasHighPain(This14Weekly) \/ hasConsecutivePainSpike(tz, This14)

WaistFlat ==
  /\ WaistKnown(This14Weekly, This14) /\ WaistKnown(Prev14Weekly, Prev14)
  /\ ThisWaist >= PrevWaist

WeightFlat ==
  /\ WeightKnown(This14Weekly, This14) /\ WeightKnown(Prev14Weekly, Prev14)
  /\ ThisWeight >= PrevWeight

SomeSideUnknown ==
  \/ ~WaistKnown(This14Weekly, This14) \/ ~WaistKnown(Prev14Weekly, Prev14)
  \/ ~WeightKnown(This14Weekly, This14) \/ ~WeightKnown(Prev14Weekly, Prev14)

NoWaistNoWeight ==
  /\ ~WaistKnown(This14Weekly, This14) /\ ~WaistKnown(Prev14Weekly, Prev14)
  /\ ~WeightKnown(This14Weekly, This14) /\ ~WeightKnown(Prev14Weekly, Prev14)

\* decide has returned, directly or inside calculateKpis.
Decided == out.fn \in {"decide", "calculateKpis"}

Decision ==
  IF out.fn = "decide" THEN out.val.decision
  ELSE IF out.fn = "calculateKpis" THEN out.val.kpis14.decision
  ELSE "pending"

(***************************************************************************)
(* Claims about the decision engine.                                       *)
(***************************************************************************)
\* C1: whenever the Pain-Spike Detector fires for the 14-day window ending on
\* the reference date, decide returns deload, whatever waist, weight,
\* adherence and performance index are.
C1_DeloadFirst == (Decided /\ PainSpike) => Decision = "deload"

\* C1 witness: the spike fires while waist and weight are flat and adherence
\* is at least 80, and the decision is deload.
C1_Witness ==
  /\ Decided /\ PainSpike /\ WaistFlat /\ WeightFlat /\ Adherence14 >= 80
  /\ Decision = "deload"

\* C2: without a pain spike, with waist known in both windows and not lower,
\* average weight known in both windows and not lower, and adherence of at
\* least 80, decide returns down150kcal.
C2_ReduceCalories ==
  (Decided /\ ~PainSpike /\ WaistFlat /\ WeightFlat /\ Adherence14 >= 80)
    => Decision = "down150kcal"

\* C2 witness: equal waists, adherence exactly 80 and a performance index
\* below -0.05, and the decision is down150kcal.
C2_Witness ==
  /\ Decided /\ ~PainSpike /\ WaistFlat /\ WeightFlat
  /\ ThisWaist = PrevWaist /\ Adherence14 = 80 /\ Perf < -50
  /\ Decision = "down150kcal"

\* C3: when the waist or the weight has no value in the current or in the
\* prior window, decide never returns down150kcal.
C3_UnknownIsNoEvidence == (Decided /\ SomeSideUnknown) => Decision # "down150kcal"

\* C3 witness: no spike, adherence at least 80, waist flat, and no weight in
\* the current window although the prior window has one.
C3_Witness ==
  /\ Decided /\ ~PainSpike /\ Adherence14 >= 80 /\ WaistFlat
  /\ ~WeightKnown(This14Weekly, This14) /\ WeightKnown(Prev14Weekly, Prev14)
  /\ Decision # "down150kcal"

\* C4 as claimed: without a pain spike and with adherence of at least 80, a
\* snapshot whose windows hold no waist and no weight at all gets down150kcal.
C4_UnknownCountsAsNotImproved ==
  (Decided /\ ~PainSpike /\ Adherence14 >= 80 /\ NoWaistNoWeight)
    => Decision = "down150kcal"

\* C4 amended: in that case decide returns up125kcal when the performance
\* index is below -0.05 and none otherwise, never down150kcal.
C4_UnknownNeverReduces ==
  (Decided /\ ~PainSpike /\ Adherence14 >= 80 /\ NoWaistNoWeight)
    => Decision = (IF Perf < -50 THEN "up125kcal" ELSE "none")

\* C4 witness: such a snapshot, decided, with the index exactly -0.05.
C4_Witness ==
  /\ Decided /\ ~PainSpike /\ Adherence14 >= 80 /\ NoWaistNoWeight
  /\ Perf = -50 /\ Decision = "none"

\* The calorie-reduction rule as the engine is meant to apply it.
Down150Rule == WaistFlat /\ WeightFlat /\ Adherence14 >= 80

\* C5: when neither the deload rule nor the down150kcal rule matches and the
\* weight average is known for both windows, decide returns up125kcal if the
\* prior average exceeds the current one by more than 0.6 kg or the
\* performance index is below -0.05, and none otherwise.
C5_IncreaseCalories ==
  (/\ Decided /\ ~PainSpike /\ ~Down150Rule
   /\ WeightKnown(This14Weekly, This14) /\ WeightKnown(Prev14Weekly, Prev14))
    => Decision = (IF PrevWeight - ThisWeight > 60 \/ Perf < -50
                   THEN "up125kcal" ELSE "none")

\* C5 witness: prior average 73.0, current average 72.2, waist improved, no
\* spike, and the decision is up125kcal.
C5_Witness ==
  /\ Decided /\ ~PainSpike
  /\ PrevWeight = 7300 /\ ThisWeight = 7220
  /\ WaistKnown(This14Weekly, This14) /\ WaistKnown(Prev14Weekly, Prev14)
  /\ ThisWaist < PrevWaist /\ Perf >= -50
  /\ Decision = "up125kcal"

\* C6 as claimed: with no weight value in the current window, a weight in the
\* prior window, a performance index not below -0.05 and no pain spike,
\* decide returns none.
C6_MissingWeightIsNoDrop ==
  (/\ Decided /\ ~PainSpike /\ Perf >= -50
   /\ ~WeightKnown(This14Weekly, This14) /\ WeightKnown(Prev14Weekly, Prev14))
    => Decision = "none"

\* C7: for a snapshot without logs and weekly measurements calculateKpis
\* returns adherence 0 in both reports, performance index 0 and decision none.
C7_EmptyState ==
  (out.fn = "calculateKpis" /\ state.logs = <<>> /\ state.weeklyMeasurements = <<>>)
    => /\ out.val.kpis7.adherence = 0
       /\ out.val.kpis14.adherence = 0
       /\ out.val.kpis14.perfIndex = 0
       /\ out.val.kpis14.decision = "none"

\* C7 witness: calculateKpis has returned for the empty snapshot in a zone
\* with a clock change.
C7_Witness ==
  /\ out.fn = "calculateKpis" /\ state.logs = <<>> /\ state.weeklyMeasurements = <<>>
  /\ tz.std # 0 /\ out.val.kpis14.decision = "none"

(***************************************************************************)
(* Claims about the Pain-Spike Detector.                                   *)
(***************************************************************************)
DistinctDates(rows) ==
  \A i, j \in 1..Len(rows) : rows[i].date = rows[j].date => i = j

HighPainOn(rows, d) ==
  \E i \in 1..Len(rows) : rows[i].date = d /\ rows[i].lumbarPain >= 7

\* Three consecutive calendar dates that each have a log with pain >= 7.
ThreeConsecutive(rows) ==
  \E i \in 1..Len(rows) :
    /\ HighPainOn(rows, rows[i].date)
    /\ HighPainOn(rows, rows[i].date + 1)
    /\ HighPainOn(rows, rows[i].date + 2)

\* C8 as claimed: for logs with pairwise distinct dates,
\* hasConsecutivePainSpike returns true exactly when three consecutive
\* calendar dates each have a log with lumbarPain >= 7.
C8_StreakIffThreeConsecutiveDays ==
  (out.fn = "hasConsecutivePainSpike" /\ DistinctDates(state.logs))
    => (out.val <=> ThreeConsecutive(state.logs))

\* The weekly trigger: a weekly measurement whose weekStart lies in the 14-day
\* window has avgLumbarPain >= 7.
WeeklyTrigger ==
  LET range == getRange(tz, 14, DateOf(fromDate))
  IN  \E i \in 1..Len(state.weeklyMeasurements) :
        LET row == state.weeklyMeasurements[i]
        IN  /\ row.weekStart >= range.start /\ row.weekStart <= range.end
            /\ row.avgLumbarPain # NULL /\ row.avgLumbarPain >= 700

\* The daily trigger: the streak detector on the logs of the window.
DailyTrigger == hasConsecutivePainSpike(tz, This14)

\* C9: the detector fires, and decide returns deload, exactly when the weekly
\* trigger or the daily trigger holds.
C9_DetectorIsOr ==
  Decided => ((Decision = "deload") <=> (WeeklyTrigger \/ DailyTrigger))

\* C9 witness: a weekly measurement of the window has pain 7, no daily log has
\* pain >= 7, and the decision is deload.
C9_Witness ==
  /\ Decided /\ WeeklyTrigger /\ ~DailyTrigger
  /\ \A i \in 1..Len(state.logs) : state.logs[i].lumbarPain < 7
  /\ Len(state.logs) > 0
  /\ Decision = "deload"

(***************************************************************************)
(* Claims about the fallback resolver.                                     *)
(***************************************************************************)
valuesOf(rows, field) ==
  MapSeq(SelectSeq(rows, LAMBDA row : row[field] # NULL), LAMBDA row : row[field])

\* Arithmetic mean to two decimals of a non-empty list of hundredths.
Mean(values) == RoundDiv(SumSeq(values), Len(values))

\* Every list of daily rows of the resolver scenarios.
DailyVariants == {l \in Picks(ResolverLogSlots) : Len(l) <= MaxLogs}

MaxRows == 2

\* Daily and weekly rows with a waist value, stored out of date order; two
\* of the daily rows share a date.
LatestLogSlots ==
  << { mkLog(25, NULL, c, 0, NoMeals, NoWorkout) : c \in {NULL, 0, 8800} },
     { mkLog(27, NULL, c, 0, NoMeals, NoWorkout) : c \in {NULL, 0, 8700} },
     { mkLog(27, NULL, 8650, 0, NoMeals, NoWorkout) },
     { mkLog(20, NULL, c, 0, NoMeals, NoWorkout) : c \in {NULL, 8900} } >>

LatestWeeklySlots ==
  << { mkWeekly(15, NULL, c, NULL) : c \in {NULL, 0, 8850} },
     { mkWeekly(22, NULL, c, NULL) : c \in {NULL, 0, 8750} },
     { mkWeekly(8, 7400, c, NULL) : c \in {NULL, 8950} } >>

InitLatest ==
  /\ tz \in TimeZones
  /\ fromDate = LastDay
  /\ state \in [logs : {l \in Picks(LatestLogSlots) : Len(l) <= MaxRows},
                weeklyMeasurements :
                  {w \in Picks(LatestWeeklySlots) : Len(w) <= MaxRows}]
  /\ out = NoOut
  /\ storage = NoStorage
  /\ loaded = TRUE
  /\ draftLog = NoDraft
  /\ host = NoHost
  /\ localStore = NoStorage

LatestFromWeeklyOrDaily ==
  /\ out = NoOut
  /\ out' = [fn |-> "latestFromWeeklyOrDaily",
             val |-> latestFromWeeklyOrDaily(state.weeklyMeasurements, state.logs,
                                             "waistCm", "waistCm")]
  /\ UNCHANGED <<state, fromDate, tz, storage, loaded, draftLog, host, localStore>>

NextLatest == LatestFromWeeklyOrDaily

SpecLatest == InitLatest /\ [][NextLatest]_vars

\* The rows of `rows` that carry a number in `field`.
numericRows(rows, field) == {i \in 1..Len(rows) : rows[i][field] # NULL}

\* v is the value of a row that has a number in `field` and whose `key` is
\* the greatest among the rows that have one.
IsLatestOf(v, rows, key, field) ==
  \E i \in numericRows(rows, field) :
     /\ v = rows[i][field]
     /\ \A j \in numericRows(rows, field) : rows[j][key] <= rows[i][key]

\* C11: latestFromWeeklyOrDaily returns the value of the weekly row with the
\* greatest weekStart among the weekly rows that have a number; with no such
\* weekly row, the value of the daily row with the greatest date among the
\* daily rows that have a number; null when neither source has one.  A stored
\* 0 is a number and is returned as 0.
C11_LatestResolver ==
  out.fn = "latestFromWeeklyOrDaily" =>
    IF numericRows(state.weeklyMeasurements, "waistCm") # {}
    THEN IsLatestOf(out.val, state.weeklyMeasurements, "weekStart", "waistCm")
    ELSE IF numericRows(state.logs, "waistCm") # {}
    THEN IsLatestOf(out.val, state.logs, "date", "waistCm")
    ELSE out.val = NULL

\* The most recent weekly row has no waist, the one before it stores 0, and a
\* daily row has a nonzero waist: the result is 0.
C11_Witness ==
  /\ out.fn = "latestFromWeeklyOrDaily"
  /\ out.val = 0
  /\ \E i \in 1..Len(state.weeklyMeasurements) :
        /\ state.weeklyMeasurements[i].waistCm = NULL
        /\ \A j \in numericRows(state.weeklyMeasurements, "waistCm") :
              state.weeklyMeasurements[j].weekStart
                < state.weeklyMeasurements[i].weekStart
  /\ \E i \in numericRows(state.logs, "waistCm") : state.logs[i].waistCm > 0

(***************************************************************************)
(* Performance index on training logs of the two 7-day windows.            *)
(***************************************************************************)
\* Largest number of logs in a training snapshot.
MaxTrainLogs == 4

\* One session holding the given sets.
Train(sets) == << [sets |-> sets] >>

Lift(exercise, load) == mkSet(exercise, "", 1, 1, load)

\* Training days: two of the current window, two of the previous window and
\* a second log stored under a date of the current window.
TrainLogSlots ==
  << { mkLog(27, NULL, NULL, 0, NoMeals, Train(t)) :
         t \in { <<Lift("jalon", 100)>>, <<Lift("jalon", 200)>>,
                 <<Lift("remo", 90), Lift("remo", 120)>> } },
     { mkLog(20, NULL, NULL, 0, NoMeals, Train(t)) :
         t \in { <<Lift("jalon", 100)>>, <<Lift("remo", 80)>>,
                 <<Lift("jalon", 125), Lift("remo", 100)>> } },
     { mkLog(26, NULL, NULL, 0, NoMeals, Train(t)) :
         t \in { <<Lift("jalon", 100)>>, <<Lift("jalon", 200)>> } },
     { mkLog(19, NULL, NULL, 0, NoMeals, Train(<<Lift("jalon", 50)>>)) },
     { mkLog(27, NULL, NULL, 0, NoMeals, Train(<<Lift("jalon", 300)>>)) } >>

InitPerf ==
  /\ tz \in TimeZones
  /\ fromDate \in RefDates
  /\ state \in [logs : {l \in Picks(TrainLogSlots) : Len(l) <= MaxTrainLogs},
                weeklyMeasurements : {<<>>}]
  /\ out = NoOut
  /\ storage = NoStorage
  /\ loaded = TRUE
  /\ draftLog = NoDraft
  /\ host = NoHost
  /\ localStore = NoStorage

PerformanceIndex ==
  /\ out = NoOut
  /\ out' = [fn |-> "performanceIndex",
             val |-> performanceIndex(tz, state, DateOf(fromDate))]
  /\ UNCHANGED <<state, fromDate, tz, storage, loaded, draftLog, host, localStore>>

NextPerf == PerformanceIndex

SpecPerf == InitPerf /\ [][NextPerf]_vars

CurrentWindow == filterRange(state.logs, getRange(tz, 7, DateOf(fromDate)))

PreviousWindow ==
  filterRange(state.logs, getRange(tz, 7, addDays(tz, DateOf(fromDate), -7)))

\* The window bests the index is computed from, in hundredths.
CurrentBest(exercise) == getExerciseBest(CurrentWindow, exercise)

PreviousBest(exercise) == getExerciseBest(PreviousWindow, exercise)

CoreExercises == {CORE_EXERCISE_IDS[k] : k \in 1..Len(CORE_EXERCISE_IDS)}

\* The greatest best of a single log of the window, in hundredths; 0 when no
\* log of the window has the exercise.
MaxOverDays(rows, exercise) ==
  IF \E i \in 1..Len(rows) : dayBest(rows[i], exercise) > 0
  THEN Scale * dayBest(rows[CHOOSE i \in 1..Len(rows) :
                              \A j \in 1..Len(rows) :
                                 dayBest(rows[j], exercise) <= dayBest(rows[i], exercise)],
                       exercise)
  ELSE 0

\* C12: the window best of each core exercise is the maximum over the days
\* of the window of the day's greatest sets*reps*weightKg.
C12_WindowBestIsMax ==
  out.fn = "performanceIndex" =>
    \A exercise \in CoreExercises :
       CurrentBest(exercise) = MaxOverDays(CurrentWindow, exercise)

\* The core exercises with a nonzero best in both windows.
Comparable == {e \in CoreExercises : CurrentBest(e) # 0 /\ PreviousBest(e) # 0}

\* (currentBest - previousBest) / previousBest as a fraction.
Contribution(exercise) ==
  Rat(CurrentBest(exercise) - PreviousBest(exercise), PreviousBest(exercise))

RECURSIVE ContributionSum(_)
ContributionSum(exercises) ==
  IF exercises = {} THEN Rat(0, 1)
  ELSE LET e == CHOOSE x \in exercises : TRUE
       IN  RatAdd(Contribution(e), ContributionSum(exercises \ {e}))

\* C13: the index is the sum of the contributions of the core exercises
\* divided by 4 (to three decimals), where an exercise contributes
\* (currentBest - previousBest) / previousBest when its best is nonzero in
\* both 7-day windows and 0 otherwise; the index is 0 when no core exercise
\* has data in both windows.
C13_IndexIsMeanOverFour ==
  out.fn = "performanceIndex" =>
    /\ out.val = RoundDiv(ContributionSum(Comparable).n * 1000,
                          ContributionSum(Comparable).d * 4)
    /\ Comparable = {} => out.val = 0

\* One exercise is comparable and changes the index, another one has data in
\* the current window only.
C13_Witness ==
  /\ out.fn = "performanceIndex"
  /\ Cardinality(Comparable) = 1
  /\ out.val # 0
  /\ \E e \in CoreExercises : CurrentBest(e) # 0 /\ PreviousBest(e) = 0

(***************************************************************************)
(* Totals and adherence of one log.                                        *)
(***************************************************************************)
\* Largest number of meal items in the log.
MaxMeals == 4

\* Meal items of the log: a breakfast, a second breakfast item, a lunch and
\* a dinner; among them the items that add up to the nogym targets, the items
\* that add up to the gym targets, an item with negative entries and an item
\* far above the targets.
MealSlots ==
  << { mkMeal("desayuno", 50, 25, 50, 650), mkMeal("desayuno", 45, 20, 70, 650),
       mkMeal("desayuno", -10, 5, 0, -100) },
     { mkMeal("desayuno", 20, 10, 30, 300) },
     { mkMeal("comida", 50, 25, 60, 750), mkMeal("comida", 45, 20, 80, 700),
       mkMeal("comida", 400, 0, 0, 5000) },
     { mkMeal("cena", 50, 20, 60, 600), mkMeal("cena", 60, 20, 100, 850) } >>

DayTypes == {"gym", "nogym"}

InitDay ==
  /\ tz \in {z \in TimeZones : z.name = "UTC"}
  /\ fromDate = LastDay
  /\ \E meals \in {m \in Picks(MealSlots) : Len(m) <= MaxMeals}, dayType \in DayTypes :
        state = [logs |-> << [mkLog(LastDay, NULL, NULL, 0, meals, NoWorkout)
                                EXCEPT !.dayType = dayType] >>,
                 weeklyMeasurements |-> <<>>]
  /\ out = NoOut
  /\ storage = NoStorage
  /\ loaded = TRUE
  /\ draftLog = NoDraft
  /\ host = NoHost
  /\ localStore = NoStorage

GetDailyTotals ==
  /\ out = NoOut
  /\ out' = [fn |-> "getDailyTotals", val |-> getDailyTotals(state.logs[1])]
  /\ UNCHANGED <<state, fromDate, tz, storage, loaded, draftLog, host, localStore>>

ComputeDayAdherence ==
  /\ out = NoOut
  /\ out' = [fn |-> "computeDayAdherence", val |-> computeDayAdherence(state.logs[1])]
  /\ UNCHANGED <<state, fromDate, tz, storage, loaded, draftLog, host, localStore>>

NextDay == GetDailyTotals \/ ComputeDayAdherence

SpecDay == InitDay /\ [][NextDay]_vars

TheLog == state.logs[1]

\* The sum of one field over the first n meal items.
RECURSIVE FieldSum(_, _, _)
FieldSum(meals, field, n) ==
  IF n = 0 THEN 0 ELSE FieldSum(meals, field, n - 1) + meals[n][field]

MacroFields == {"p", "f", "c", "kcal"}

\* C14: getDailyTotals returns for each of p, f, c and kcal the sum of the
\* field over all meal items of the log, negative values included, and all
\* zeros for a log without meal items.
C14_TotalsAreSums ==
  out.fn = "getDailyTotals" =>
    /\ \A field \in MacroFields :
          out.val[field] = FieldSum(TheLog.meals, field, Len(TheLog.meals))
    /\ TheLog.meals = <<>> => \A field \in MacroFields : out.val[field] = 0

\* Several items, one of them with negative entries.
C14_Witness ==
  /\ out.fn = "getDailyTotals"
  /\ Len(TheLog.meals) >= 3
  /\ \E i \in 1..Len(TheLog.meals) : TheLog.meals[i].p < 0 /\ TheLog.meals[i].kcal < 0
  /\ out.val.p > 0

(***************************************************************************)
(* Date windows and the row filters.                                       *)
(***************************************************************************)
\* Longest window asked of getRange.
MaxDays == 14

\* Rows on both sides of the boundaries of the 7-day and 14-day windows.
RangeDates ==
  <<LastDay, LastDay - 14, LastDay - 6, LastDay - 13, LastDay - 7, LastDay - 1>>

RangeLogSlots ==
  [k \in 1..Len(RangeDates) |->
     { mkLog(RangeDates[k], NULL, NULL, 0, NoMeals, NoWorkout) }]

RangeWeeklySlots ==
  << { mkWeekly(LastDay - 14, 7300, NULL, NULL) },
     { mkWeekly(LastDay - 7, 7300, NULL, NULL) } >>

InitRange ==
  /\ tz \in TimeZones
  /\ fromDate \in RefDates
  /\ state \in Snapshots(RangeLogSlots, RangeWeeklySlots)
  /\ out = NoOut
  /\ storage = NoStorage
  /\ loaded = TRUE
  /\ draftLog = NoDraft
  /\ host = NoHost
  /\ localStore = NoStorage

GetRange ==
  /\ out = NoOut
  /\ \E days \in 1..MaxDays :
        out' = [fn |-> "getRange", days |-> days,
                val |-> getRange(tz, days, DateOf(fromDate))]
  /\ UNCHANGED <<state, fromDate, tz, storage, loaded, draftLog, host, localStore>>

FilterRange ==
  /\ out = NoOut
  /\ \E days \in 1..MaxDays :
        out' = [fn |-> "filterRange", days |-> days,
                val |-> filterRange(state.logs, getRange(tz, days, DateOf(fromDate))),
                weeks |-> filterWeeklyRange(state.weeklyMeasurements,
                                            getRange(tz, days, DateOf(fromDate)))]
  /\ UNCHANGED <<state, fromDate, tz, storage, loaded, draftLog, host, localStore>>

NextRange == GetRange \/ FilterRange

SpecRange == InitRange /\ [][NextRange]_vars

\* The rows of `rows` whose `key` lies in lo..hi, in stored order.
RowsBetween(rows, key, lo, hi) ==
  SelectSeq(rows, LAMBDA row : lo <= row[key] /\ row[key] <= hi)

\* C15: getRange returns end = reference date and start = reference date
\* minus (days - 1) calendar days, and the row filters keep exactly the rows
\* dated from start to end, both included, so that a window covers exactly
\* `days` calendar dates.
C15_WindowCoversDaysDates ==
  /\ out.fn = "getRange" =>
        out.val = [start |-> fromDate - (out.days - 1), end |-> fromDate]
  /\ out.fn = "filterRange" =>
        /\ out.val = RowsBetween(state.logs, "date",
                                 fromDate - (out.days - 1), fromDate)
        /\ out.weeks = RowsBetween(state.weeklyMeasurements, "weekStart",
                                   fromDate - (out.days - 1), fromDate)

\* cl(x) * target: 0 at or below 0 and at or above twice the target, rising
\* to the target and falling after it.
ClTimesTarget(actual, target) ==
  IF actual <= 0 \/ actual >= 2 * target THEN 0
  ELSE IF actual <= target THEN actual
  ELSE 2 * target - actual

SlotsFilled(log) ==
  Cardinality({log.meals[i].meal : i \in 1..Len(log.meals)}
                \cap {"desayuno", "comida", "cena"})

\* 100 * (0.35 * mealScore + 0.65 * macroScore) as the fraction
\* ScoreNum / ScoreDen: multiplied by 12 the score is
\* 140 * slots + 351 * cl(p) + 156 * cl(f) + 156 * cl(c) + 117 * cl(kcal).
ScoreDen(log) == 12 * TargetLcm[log.dayType]

ScoreNum(log) ==
  LET L == TargetLcm[log.dayType]
      target == DAY_TARGETS[log.dayType]
      total(field) == FieldSum(log.meals, field, Len(log.meals))
  IN  140 * SlotsFilled(log) * L
    + 351 * ClTimesTarget(total("p"), target.p) * (L \div target.p)
    + 156 * ClTimesTarget(total("f"), target.f) * (L \div target.f)
    + 156 * ClTimesTarget(total("c"), target.c) * (L \div target.c)
    + 117 * ClTimesTarget(total("kcal"), target.kcal) * (L \div target.kcal)

OnTarget(log) ==
  \A field \in MacroFields :
     FieldSum(log.meals, field, Len(log.meals)) = DAY_TARGETS[log.dayType][field]

\* C16: nutritionPercent = round(100 * (0.35 * mealScore + 0.65 * macroScore))
\* with mealScore the share of the three meal slots that have an item and
\* macroScore = 0.45 cl(p) + 0.20 cl(f) + 0.20 cl(c) + 0.15 cl(kcal) against
\* the targets of the day type; it is an integer in 0..100, 0 for a log
\* without meals and 100 when the three slots are filled and every total is
\* on target.
C16_NutritionPercent ==
  out.fn = "computeDayAdherence" =>
    LET N == out.val.nutritionPercent
    IN  /\ N \in 0..100
        /\ 2 * N * ScoreDen(TheLog) <= 2 * ScoreNum(TheLog) + ScoreDen(TheLog)
        /\ 2 * ScoreNum(TheLog) + ScoreDen(TheLog) < 2 * (N + 1) * ScoreDen(TheLog)
        /\ TheLog.meals = <<>> => N = 0
        /\ (SlotsFilled(TheLog) = 3 /\ OnTarget(TheLog)) => N = 100

\* Two items in the same slot and an empty slot, a score strictly between
\* the extremes.
C16_Witness ==
  /\ out.fn = "computeDayAdherence"
  /\ Len(TheLog.meals) = 3
  /\ SlotsFilled(TheLog) = 2
  /\ out.val.nutritionPercent \in 1..99

\* The three slots filled and every total on the target of the day type.
C16_WitnessOnTarget ==
  /\ out.fn = "computeDayAdherence"
  /\ SlotsFilled(TheLog) = 3 /\ OnTarget(TheLog)
  /\ TheLog.dayType = "gym"

(***************************************************************************)
(* CSV export.  The result is the list `lines` before lines.join('\n'),    *)
(* each line as the list of its cells before row.join(',').                *)
(***************************************************************************)
Digit == <<"0", "1", "2", "3", "4", "5", "6", "7", "8", "9">>

\* String(n) for an integer n.
RECURSIVE String(_)
String(n) ==
  IF n < 0 THEN "-" \o String(-n)
  ELSE IF n < 10 THEN Digit[n + 1]
  ELSE String(n \div 10) \o Digit[(n % 10) + 1]

\* String(v) for a measured quantity kept in hundredths: 7240 is "72.4".
StringScaled(v) ==
  LET whole == Abs(v) \div Scale
      frac == Abs(v) % Scale
  IN  (IF v < 0 THEN "-" ELSE "") \o String(whole)
        \o (IF frac = 0 THEN ""
            ELSE IF frac % 10 = 0 THEN "." \o Digit[(frac \div 10) + 1]
            ELSE "." \o Digit[(frac \div 10) + 1] \o Digit[(frac % 10) + 1])

\* The ISO date string of a day, written with the day number.
DateString(day) == "day " \o String(day)

\* The cell values of the model that contain a comma, a quote or a newline.
SpecialValues == {"remo, barra"}

escapeValue(value) ==
  IF value \in SpecialValues THEN "\"" \o value \o "\"" ELSE value

\* The list holding the weekly row found for the date, empty when find
\* returns undefined.  new Date(start + 'T00:00:00') is local midnight.
getWeekForDate(z, weeklyRows, date) ==
  LET ordered == sortBy(weeklyRows, "weekStart", TRUE)
      covers(row) ==
        LET start == row.weekStart
            end == toISODate(addDays(z, UTC(z, DateOf(start)), 6))
        IN  date >= start /\ date <= end
      found == SelectSeq(ordered, covers)
  IN  IF found = <<>> THEN <<>> ELSE <<Head(found)>>

CSV_HEADER ==
  <<"fecha", "tipo_dia", "pesoKg", "cinturaCm", "dolor_lumbar", "sueño_h", "pasos",
    "peso_semanal_kg", "cintura_semanal_cm", "dolor_lumbar_promedio",
    "sueño_semanal_h", "pasos_semanal", "pecho_cm", "hombros_cm", "brazo_cm",
    "cadera_cm", "comida", "gramos", "proteinas", "grasas", "carbos", "kcal",
    "ejercicio", "sets", "reps", "kg", "rir">>

\* The meal list of a log without meals: one item of zeros without a source.
PlaceholderMeal ==
  [meal |-> "", source |-> "undefined", grams |-> 0, p |-> 0, f |-> 0, c |-> 0, kcal |-> 0]

\* Mutant: a row for every meal item and a further row for every set.
rowsInDay_sum(meals, sets) == Max2(Len(meals) + Len(sets), 1)

rowsInDay(meals, sets) == Max2(Max2(Len(meals), Len(sets)), 1)

\* value ? String(value) : '' for an optional number of a log.
truthyCell(v, scaled) ==
  IF v = NULL \/ v = 0 THEN "" ELSE IF scaled THEN StringScaled(v) ELSE String(v)

\* weekly?.field != null ? String(weekly.field) : ''
weeklyCell(weekly, field, scaled) ==
  IF weekly = <<>> THEN ""
  ELSE IF weekly[1][field] = NULL THEN ""
  ELSE IF scaled THEN StringScaled(weekly[1][field]) ELSE String(weekly[1][field])

\* The cells of row i (from 1) of a log, before escaping.
csvRow(log, weekly, meals, sets, i) ==
  LET hasMeal == i <= Len(meals)
      hasSet == i <= Len(sets)
  IN  << DateString(log.date),
         log.dayType,
         truthyCell(log.weightKg, TRUE),
         truthyCell(log.waistCm, TRUE),
         String(log.lumbarPain),
         truthyCell(log.sleepHours, TRUE),
         truthyCell(log.steps, FALSE),
         weeklyCell(weekly, "avgWeightKg", TRUE),
         weeklyCell(weekly, "waistCm", TRUE),
         weeklyCell(weekly, "avgLumbarPain", TRUE),
         weeklyCell(weekly, "sleepHours", TRUE),
         weeklyCell(weekly, "steps", FALSE),
         weeklyCell(weekly, "chestCm", TRUE),
         weeklyCell(weekly, "shouldersCm", TRUE),
         weeklyCell(weekly, "armCm", TRUE),
         weeklyCell(weekly, "hipsCm", TRUE),
         IF hasMeal THEN meals[i].meal \o " (" \o meals[i].source \o ")" ELSE "",
         IF hasMeal THEN String(meals[i].grams) ELSE "",
         IF hasMeal THEN String(meals[i].p) ELSE "",
         IF hasMeal THEN String(meals[i].f) ELSE "",
         IF hasMeal THEN String(meals[i].c) ELSE "",
         IF hasMeal THEN String(meals[i].kcal) ELSE "",
         IF hasSet THEN getSetExerciseId(sets[i]) ELSE "",
         IF hasSet THEN String(sets[i].sets) ELSE "",
         IF hasSet THEN String(sets[i].reps) ELSE "",
         IF hasSet THEN String(sets[i].weightKg) ELSE "",
         IF hasSet /\ sets[i].rir # NULL THEN String(sets[i].rir) ELSE "" >>

\* The lines one log contributes.
csvLogRows(z, log, weeklyRows) ==
  LET meals == IF Len(log.meals) > 0 THEN log.meals ELSE <<PlaceholderMeal>>
      sets == flatten(MapSeq(log.workout, LAMBDA session : session.sets))
      weekly == getWeekForDate(z, weeklyRows, log.date)
  IN  [i \in 1..rowsInDay(meals, sets) |->
         MapSeq(csvRow(log, weekly, meals, sets, i), escapeValue)]

toCsv(z, rows, start, end, weeklyRows) ==
  LET selected == SelectSeq(rows, LAMBDA row : isInRange(row.date, start, end))
  IN  <<CSV_HEADER>>
        \o flatten(MapSeq(selected, LAMBDA log : csvLogRows(z, log, weeklyRows)))

\* Rows with every field the export reads.
CsvMeal(meal, source, grams, p, f, c, kcal) ==
  [meal |-> meal, source |-> source, grams |-> grams,
   p |-> p, f |-> f, c |-> c, kcal |-> kcal]

CsvSet(exerciseId, exercise, sets, reps, weightKg, rir) ==
  [exerciseId |-> exerciseId, exercise |-> exercise, sets |-> sets, reps |-> reps,
   weightKg |-> weightKg, rir |-> rir]

CsvLog(date, weightKg, sleepHours, steps, meals, workout) ==
  [date |-> date, dayType |-> "gym", weightKg |-> weightKg, waistCm |-> NULL,
   lumbarPain |-> 2, sleepHours |-> sleepHours, steps |-> steps,
   meals |-> meals, workout |-> workout]

CsvWeekly(weekStart, avgWeightKg, steps) ==
  [weekStart |-> weekStart, avgWeightKg |-> avgWeightKg, waistCm |-> NULL,
   avgLumbarPain |-> NULL, sleepHours |-> NULL, steps |-> steps,
   chestCm |-> 10150, shouldersCm |-> NULL, armCm |-> NULL, hipsCm |-> NULL]

Breakfast == CsvMeal("desayuno", "preset", 300, 45, 20, 70, 650)

Lunch == CsvMeal("comida", "manual", 0, 45, 20, 80, 700)

Pulldown == CsvSet("jalon", "", 3, 10, 50, 2)

Row == CsvSet("", "remo, barra", 4, 8, 60, NULL)

\* Logs of the export scenarios: a day of the last week with zero to two
\* meals and zero to two sets (in one session or in two); the first day of
\* the week with two sets and no meals; a day before the week.
CsvLogSlots ==
  << { CsvLog(LastDay - 2, w, 750, 0, m, t) :
         w \in {NULL, 7240},
         m \in {<<>>, <<Breakfast>>, <<Breakfast, Lunch>>},
         t \in {<< [sets |-> <<>>] >>, << [sets |-> <<Pulldown>>] >>,
                << [sets |-> <<Row>>], [sets |-> <<Pulldown>>] >>} },
     { CsvLog(LastDay - 7, 0, NULL, 9000, <<>>, t) :
         t \in {<< [sets |-> <<>>] >>, << [sets |-> <<Pulldown, Row>>] >>} },
     { CsvLog(LastDay - 19, 7300, NULL, NULL, <<Breakfast, Lunch>>,
              << [sets |-> <<Pulldown>>] >>) } >>

CsvWeeklySlots ==
  << { CsvWeekly(LastDay - 7, w, 0) : w \in {NULL, 7220} },
     { CsvWeekly(LastDay - 14, 7300, 8000) } >>

\* Hours of the day at which the export is asked for, in UTC.
NowHours == {0, 12}

InitCsv ==
  /\ tz \in TimeZones
  /\ fromDate \in RefDates
  /\ state \in Snapshots(CsvLogSlots, CsvWeeklySlots)
  /\ out = NoOut
  /\ storage = NoStorage
  /\ loaded = TRUE
  /\ draftLog = NoDraft
  /\ host = NoHost
  /\ localStore = NoStorage

\* exportCsv: the last seven days up to now.
ToCsv ==
  /\ out = NoOut
  /\ \E hour \in NowHours :
        LET range7 == getRange(tz, 7, DateOf(fromDate) + hour)
        IN  out' = [fn |-> "toCsv", start |-> range7.start, end |-> range7.end,
                    val |-> toCsv(tz, state.logs, range7.start, range7.end,
                                  state.weeklyMeasurements)]
  /\ UNCHANGED <<state, fromDate, tz, storage, loaded, draftLog, host, localStore>>

NextCsv == ToCsv

SpecCsv == InitCsv /\ [][NextCsv]_vars

\* The logs the export selects, the lines after the header and, for a date,
\* the lines that carry it.  The logs of a snapshot have distinct dates.
Exported == SelectSeq(state.logs, LAMBDA log : out.start <= log.date /\ log.date <= out.end)

DataLines == Tail(out.val)

LinesOf(date) == SelectSeq(DataLines, LAMBDA line : line[1] = DateString(date))

MealCount(log) == Len(log.meals)

WorkoutSetCount(log) == SumSeq(MapSeq(log.workout, LAMBDA session : Len(session.sets)))

ExpectedLines(date) ==
  IF \E k \in 1..Len(Exported) : Exported[k].date = date
  THEN LET log == Exported[CHOOSE k \in 1..Len(Exported) : Exported[k].date = date]
       IN  Max2(Max2(MealCount(log), WorkoutSetCount(log)), 1)
  ELSE 0

\* C17: toCsv emits the header line and then, for each log dated in
\* [start, end], exactly max(mealCount, workoutSetCount, 1) rows; logs
\* outside the range yield no row.
C17_RowsPerLog ==
  out.fn = "toCsv" =>
    /\ out.val[1] = CSV_HEADER
    /\ \A date \in 0..LastDay : Len(LinesOf(date)) = ExpectedLines(date)
    /\ \A k \in 1..Len(DataLines) :
          \E j \in 1..Len(Exported) : DataLines[k][1] = DateString(Exported[j].date)

\* A log with two meals and one set gives two rows, a log without meals and
\* sets gives one row, and a log before the range gives none.
C17_Witness ==
  /\ out.fn = "toCsv"
  /\ \E k \in 1..Len(Exported) :
        /\ MealCount(Exported[k]) = 2 /\ WorkoutSetCount(Exported[k]) = 1
        /\ Len(LinesOf(Exported[k].date)) = 2
  /\ \E k \in 1..Len(Exported) :
        /\ MealCount(Exported[k]) = 0 /\ WorkoutSetCount(Exported[k]) = 0
        /\ Len(LinesOf(Exported[k].date)) = 1
  /\ \E k \in 1..Len(state.logs) : state.logs[k].date < out.start

MealColumns == 17..22

WorkoutColumns == 23..27

\* C18: in the rows of one log, row i carries meal item i and workout set
\* i; from row mealCount on the six meal columns are blank and from row
\* workoutSetCount on the five workout columns are blank, also for a log
\* with zero meals and one or more sets.
C18_ShorterListIsBlank ==
  out.fn = "toCsv" =>
    \A k \in 1..Len(Exported) :
       LET log == Exported[k]
           lines == LinesOf(log.date)
           sets == flatten(MapSeq(log.workout, LAMBDA session : session.sets))
       IN  \A i \in 1..Len(lines) :
              /\ i <= MealCount(log) =>
                    /\ lines[i][19] = String(log.meals[i].p)
                    /\ lines[i][22] = String(log.meals[i].kcal)
              /\ i > MealCount(log) => \A col \in MealColumns : lines[i][col] = ""
              /\ i <= WorkoutSetCount(log) =>
                    /\ lines[i][24] = String(sets[i].sets)
                    /\ lines[i][26] = String(sets[i].weightKg)
              /\ i > WorkoutSetCount(log) => \A col \in WorkoutColumns : lines[i][col] = ""

(***************************************************************************)
(* Stored state: normalization on load and save, weekly save and import.   *)
(***************************************************************************)
\* A stored value that is not a finite number (a string, NaN, Infinity).
NonFinite == -888888

\* typeof v === 'number' && Number.isFinite(v) ? v : undefined
finiteOrUndefined(v) == IF v = NULL \/ v = NonFinite THEN NULL ELSE v

\* The filter with the `seen` set: the first row of each weekStart is kept.
RECURSIVE firstSeen(_, _)
firstSeen(rows, seen) ==
  IF rows = <<>> THEN <<>>
  ELSE IF Head(rows).weekStart \in seen THEN firstSeen(Tail(rows), seen)
  ELSE <<Head(rows)>> \o firstSeen(Tail(rows), seen \cup {Head(rows).weekStart})

normalizeWeeklyMeasurements(rawWeekly) ==
  LET mapped == MapSeq(rawWeekly, LAMBDA row :
                         [weekStart |-> row.weekStart,
                          avgWeightKg |-> finiteOrUndefined(row.avgWeightKg),
                          waistCm |-> finiteOrUndefined(row.waistCm),
                          avgLumbarPain |-> finiteOrUndefined(row.avgLumbarPain)])
      withWeek == SelectSeq(mapped, LAMBDA row : row.weekStart # NULL)
  IN  sortBy(firstSeen(withWeek, {}), "weekStart", TRUE)

\* normalizeState on what the storage returned; nothing stored is the state
\* without logs and weekly measurements.
normalizeState(input) ==
  IF input.present
  THEN [logs |-> input.logs,
        weeklyMeasurements |-> normalizeWeeklyMeasurements(input.weeklyMeasurements),
        draftByDate |-> input.draftByDate]
  ELSE [logs |-> <<>>, weeklyMeasurements |-> normalizeWeeklyMeasurements(<<>>),
        draftByDate |-> NoDrafts]

getDefaultState == normalizeState([present |-> TRUE, logs |-> <<>>,
                                   weeklyMeasurements |-> <<>>, draftByDate |-> NoDrafts])

\* Day 0 is a Sunday: the clock changes of the zones fall on Sundays.
getDay(day) == day % 7

\* Monday of the week of the date: local midnight, moved back in local time,
\* read as a UTC date.
toWeekStart(z, date) ==
  LET base == UTC(z, DateOf(date))
      diff == (getDay(date) + 6) % 7
  IN  toISODate(addDays(z, base, -diff))

\* The weekly list saveWeekly builds.
saveWeeklyRows(prev, weekStart, weeklyDraft) ==
  LET records == \E i \in 1..Len(prev) : prev[i].weekStart = weekStart
      entry == [weeklyDraft EXCEPT !.weekStart = weekStart]
  IN  IF records
      THEN [i \in 1..Len(prev) |-> IF prev[i].weekStart = weekStart THEN entry ELSE prev[i]]
      ELSE Append(prev, entry)

\* new Map(rows.map((row) => [row.weekStart, row])) as the list of its
\* values: a repeated key keeps its place and takes the later row.
RECURSIVE mapOf(_, _)
mapOf(rows, acc) ==
  IF rows = <<>> THEN acc
  ELSE LET row == Head(rows)
       IN  mapOf(Tail(rows),
                 IF \E k \in 1..Len(acc) : acc[k].weekStart = row.weekStart
                 THEN [k \in 1..Len(acc) |->
                         IF acc[k].weekStart = row.weekStart THEN row ELSE acc[k]]
                 ELSE Append(acc, row))

\* incomingWeekly.forEach: a row without weekStart is skipped, a row whose
\* week is in the map already is skipped.
RECURSIVE mergeIncoming(_, _)
mergeIncoming(incoming, byWeek) ==
  IF incoming = <<>> THEN byWeek
  ELSE LET row == Head(incoming)
       IN  mergeIncoming(Tail(incoming),
                         IF row.weekStart = NULL THEN byWeek
                         ELSE IF \E k \in 1..Len(byWeek) : byWeek[k].weekStart = row.weekStart
                         THEN byWeek
                         ELSE Append(byWeek, row))

\* Mutant: the incoming rows are appended to the stored ones.
importWeekly_concat(prev, incoming) ==
  prev \o SelectSeq(incoming, LAMBDA row : row.weekStart # NULL)

\* The weekly list importJson builds.
importWeekly(prev, incoming) == mergeIncoming(incoming, mapOf(prev, <<>>))

\* A log with its adherence record.
withAdherence(log, adherence) ==
  [field \in DOMAIN log \cup {"adherence"} |->
     IF field = "adherence" THEN adherence ELSE log[field]]

createEmptyLog(date) ==
  withAdherence(mkLog(date, NULL, NULL, 0, <<>>, NoWorkout),
                [nutritionPercent |-> 0, kpiFlags |-> {}])

\* The draft of the date, else the first stored log of the date, else an
\* empty log.
getDraftBaseForDate(snapshotState, date) ==
  IF date \in DOMAIN snapshotState.draftByDate
  THEN [snapshotState.draftByDate[date] EXCEPT !.date = date]
  ELSE IF \E k \in 1..Len(snapshotState.logs) : snapshotState.logs[k].date = date
  THEN LET k == CHOOSE i \in 1..Len(snapshotState.logs) :
                  /\ snapshotState.logs[i].date = date
                  /\ \A j \in 1..(i - 1) : snapshotState.logs[j].date # date
       IN  [snapshotState.logs[k] EXCEPT !.date = date]
  ELSE createEmptyLog(date)

\* { ...draftLog, date: activeDate, adherence: computeDayAdherence(draftLog) }
currentOf(log, activeDate) ==
  withAdherence([log EXCEPT !.date = activeDate], computeDayAdherence(log))

NoTimer == [pending |-> FALSE]

\* The refs and timers of the form when the app is mounted.  lastSaveSource is
\* the `source` of the last result of saveAppState, "none" before the first.
HostAtMount(activeDate) ==
  [draftAutosaveTimer |-> NoTimer, draftDirty |-> FALSE,
   draftSourceDate |-> activeDate, committed |-> {}, lastSaveSource |-> "none"]

\* window.setTimeout of the draft autosave: the callback keeps the date and
\* the draft of the render that started it.
draftAutosaveTimerOf(log, activeDate) ==
  [pending |-> TRUE, activeDate |-> activeDate, current |-> currentOf(log, activeDate)]

withEntry(drafts, date, log) ==
  [d \in DOMAIN drafts \cup {date} |-> IF d = date THEN log ELSE drafts[d]]

withoutEntry(drafts, date) == [d \in DOMAIN drafts \ {date} |-> drafts[d]]

\* { ...prev, ...incoming }
spread(prev, incoming) ==
  [d \in DOMAIN prev \cup DOMAIN incoming |->
     IF d \in DOMAIN incoming THEN incoming[d] ELSE prev[d]]

\* Mutant: the committed log is always appended.
saveDraftLogs_append(prev, activeDate, cleaned) == Append(prev, cleaned)

\* The logs saveDraft builds.
saveDraftLogs(prev, activeDate, cleaned) ==
  LET existing == \E k \in 1..Len(prev) : prev[k].date = activeDate
  IN  IF existing
      THEN [k \in 1..Len(prev) |-> IF prev[k].date = activeDate THEN cleaned ELSE prev[k]]
      ELSE Append(prev, cleaned)

\* new Map(prev.logs.map((row) => [row.date, row])) as the list of its values.
RECURSIVE mapByDate(_, _)
mapByDate(rows, acc) ==
  IF rows = <<>> THEN acc
  ELSE LET row == Head(rows)
       IN  mapByDate(Tail(rows),
                     IF \E k \in 1..Len(acc) : acc[k].date = row.date
                     THEN [k \in 1..Len(acc) |->
                             IF acc[k].date = row.date THEN row ELSE acc[k]]
                     ELSE Append(acc, row))

\* incomingLogs.forEach: a row whose date is in the map already is skipped.
RECURSIVE mergeIncomingLogs(_, _)
mergeIncomingLogs(incoming, byDate) ==
  IF incoming = <<>> THEN byDate
  ELSE LET row == Head(incoming)
       IN  mergeIncomingLogs(Tail(incoming),
                             IF \E k \in 1..Len(byDate) : byDate[k].date = row.date
                             THEN byDate
                             ELSE Append(byDate, row))

importLogs(prev, incoming) == mergeIncomingLogs(incoming, mapByDate(prev, <<>>))

\* The state the updater of importJson returns.
importJson(prev, raw) ==
  [prev EXCEPT !.logs = importLogs(prev.logs, raw.logs),
               !.weeklyMeasurements = importWeekly(prev.weeklyMeasurements,
                                                   raw.weeklyMeasurements),
               !.draftByDate = spread(prev.draftByDate, raw.draftByDate)]

\* What the storage may hold when the app starts: nothing, a list as a save
\* leaves it, lists that repeat a weekStart, and a list with a row without
\* weekStart and a value that is not a number.
StoredWeekly ==
  { <<>>,
    << mkWeekly(LastDay - 7, 7300, NULL, NULL), mkWeekly(LastDay - 14, 7200, NULL, NULL) >>,
    << mkWeekly(LastDay - 14, 7200, NULL, NULL), mkWeekly(LastDay - 7, 7300, NULL, NULL),
       mkWeekly(LastDay - 7, 7250, NULL, NULL) >>,
    << mkWeekly(NULL, 7000, NULL, NULL), mkWeekly(LastDay - 7, NonFinite, 8800, NULL),
       mkWeekly(LastDay - 7, 7250, NULL, NULL) >> }

\* Weekly lists of the files given to importJson.
ImportedWeekly ==
  { << mkWeekly(LastDay - 7, 7260, NULL, NULL), mkWeekly(LastDay - 7, 7270, NULL, NULL) >>,
    << mkWeekly(LastDay - 21, 7400, NULL, NULL) >>,
    << mkWeekly(NULL, 7000, NULL, NULL), mkWeekly(LastDay - 14, 7210, NULL, NULL),
       mkWeekly(SpringDay - 7, 7280, NULL, NULL) >> }

\* Weights typed into the weekly form; the form may be left empty.
DraftWeights == {NULL, 7100}

InitStore ==
  /\ tz \in TimeZones
  /\ fromDate \in RefDates
  /\ state = getDefaultState
  /\ out = NoOut
  /\ storage \in {NoStorage}
                   \cup {[present |-> TRUE, logs |-> <<>>, weeklyMeasurements |-> w,
                          draftByDate |-> NoDrafts] : w \in StoredWeekly}
  /\ loaded = FALSE
  /\ draftLog = createEmptyLog(fromDate)
  /\ host = HostAtMount(fromDate)
  /\ localStore = NoStorage

\* The document saveAppState writes: normalizeState(state).
normalizedOf(st) ==
  LET normalized == normalizeState([present |-> TRUE, logs |-> st.logs,
                                    weeklyMeasurements |-> st.weeklyMeasurements,
                                    draftByDate |-> st.draftByDate])
  IN  [present |-> TRUE, logs |-> normalized.logs,
       weeklyMeasurements |-> normalized.weeklyMeasurements,
       draftByDate |-> normalized.draftByDate]

\* localStorage.getItem(STORAGE_KEY) normalized; the default state when the
\* key is not set.
loadFromLocalStorage(local) == normalizeState(local)

\* The state loadAppState returns: the IndexedDB record when the database
\* opens and the read succeeds (the default state when there is no record),
\* the localStorage copy when IndexedDB is missing or fails.
loadAppState(idbWorks, idb, local) ==
  IF idbWorks THEN normalizeState(idb) ELSE loadFromLocalStorage(local)

\* The two stores after saveAppState: the IndexedDB record is written when
\* the database opens and the transaction completes, the localStorage key
\* when IndexedDB is missing or fails.
saveAppState(idbWorks, st, idb, local) ==
  IF idbWorks THEN [idb |-> normalizedOf(st), local |-> local]
  ELSE [idb |-> idb, local |-> normalizedOf(st)]

\* The effect that runs once when the app is mounted.
Load ==
  /\ ~loaded
  /\ \E idbWorks \in BOOLEAN :
     LET loadedState == loadAppState(idbWorks, storage, localStore)
         baseline == getDraftBaseForDate(loadedState, fromDate)
         draft == withAdherence(baseline, computeDayAdherence(baseline))
     IN  /\ state' = loadedState
         /\ draftLog' = draft
         /\ host' = [host EXCEPT !.draftAutosaveTimer =
                                   draftAutosaveTimerOf(draft, fromDate),
                                 !.draftDirty = FALSE,
                                 !.draftSourceDate = fromDate]
  /\ loaded' = TRUE
  /\ out' = [fn |-> "load"]
  /\ UNCHANGED <<fromDate, tz, storage, localStore>>

\* The save effect after a change of the state: saveAppState(state).
Save ==
  /\ loaded
  /\ \E idbWorks \in BOOLEAN :
        LET saved == saveAppState(idbWorks, state, storage, localStore)
        IN  /\ storage' = saved.idb
            /\ localStore' = saved.local
            /\ host' = [host EXCEPT !.lastSaveSource =
                                      IF idbWorks THEN "indexeddb" ELSE "localstorage"]
  /\ out' = [fn |-> "save"]
  /\ UNCHANGED <<state, fromDate, tz, loaded, draftLog>>

SaveWeekly ==
  /\ \E weight \in DraftWeights :
        LET weekStart == toWeekStart(tz, fromDate)
            weeklyDraft == mkWeekly(weekStart, weight, NULL, NULL)
        IN  state' = [state EXCEPT !.weeklyMeasurements =
                        saveWeeklyRows(state.weeklyMeasurements, weekStart, weeklyDraft)]
  /\ out' = [fn |-> "saveWeekly"]
  /\ UNCHANGED <<fromDate, tz, storage, loaded, draftLog, host, localStore>>

\* importJson with a file that holds weekly measurements only.
ImportJson ==
  /\ \E incomingWeekly \in ImportedWeekly :
        /\ state' = importJson(state, [logs |-> <<>>,
                                       weeklyMeasurements |-> incomingWeekly,
                                       draftByDate |-> NoDrafts])
        /\ out' = [fn |-> "importJson", incomingWeekly |-> incomingWeekly]
  /\ UNCHANGED <<fromDate, tz, storage, loaded, draftLog, host, localStore>>

NextStore == Load \/ Save \/ SaveWeekly \/ ImportJson

SpecStore == InitStore /\ [][NextStore]_vars

\* C19: state.weeklyMeasurements holds at most one record per weekStart in
\* every reachable state: in the default state and after every sequence of
\* load, save, saveWeekly and importJson, also when the stored or imported
\* list repeats a weekStart.
C19_OneRecordPerWeek ==
  \A i, j \in 1..Len(state.weeklyMeasurements) :
     i # j => state.weeklyMeasurements[i].weekStart # state.weeklyMeasurements[j].weekStart

\* An import whose file repeats a weekStart that the state held already: the
\* record of that week is none of the imported ones.
C19_Witness ==
  /\ out.fn = "importJson"
  /\ Len(state.weeklyMeasurements) >= 2
  /\ \E a, b \in 1..Len(out.incomingWeekly) :
        /\ a < b
        /\ out.incomingWeekly[a].weekStart = out.incomingWeekly[b].weekStart
        /\ \E k \in 1..Len(state.weeklyMeasurements) :
              /\ state.weeklyMeasurements[k].weekStart = out.incomingWeekly[a].weekStart
              /\ state.weeklyMeasurements[k] # out.incomingWeekly[a]
              /\ state.weeklyMeasurements[k] # out.incomingWeekly[b]

\* The last stored row of a week.
LastStored(weekStart) ==
  LET raw == storage.weeklyMeasurements
      last == CHOOSE i \in 1..Len(raw) :
                /\ raw[i].weekStart = weekStart
                /\ \A j \in (i + 1)..Len(raw) : raw[j].weekStart # weekStart
  IN  raw[last]

\* C20: when the stored list holds two records of one weekStart, the record
\* normalizeWeeklyMeasurements keeps is the one that comes later in the list.
C20_LaterWriteWins ==
  out.fn = "load" =>
    \A k \in 1..Len(state.weeklyMeasurements) :
       state.weeklyMeasurements[k].avgWeightKg
         = finiteOrUndefined(LastStored(state.weeklyMeasurements[k].weekStart).avgWeightKg)

(***************************************************************************)
(* The workout form: sets of the first session of the draft log.           *)
(***************************************************************************)
\* getWorkoutSetId: set.exerciseId || set.exercise || ''
getWorkoutSetId(set) ==
  IF set.exerciseId # "" THEN set.exerciseId ELSE set.exercise

\* prev.workout[0] ?? createEmptySession(prev.id)
baseSessionOf(log) == IF Len(log.workout) > 0 THEN log.workout[1] ELSE [sets |-> <<>>]

\* findIndex: the first position whose entry has the id, 0 when there is none.
findIndexOf(sets, exerciseId) ==
  IF \E k \in 1..Len(sets) : getWorkoutSetId(sets[k]) = exerciseId
  THEN CHOOSE k \in 1..Len(sets) :
         /\ getWorkoutSetId(sets[k]) = exerciseId
         /\ \A j \in 1..(k - 1) : getWorkoutSetId(sets[j]) # exerciseId
  ELSE 0

\* [{ ...baseSession, sets: nextSets }, ...prev.workout.slice(1)]
withSets(log, nextSets) ==
  [log EXCEPT !.workout =
     << [baseSessionOf(log) EXCEPT !.sets = nextSets] >>
       \o (IF Len(log.workout) > 0 THEN Tail(log.workout) ELSE <<>>)]

\* Mutant: an entry is found by its exerciseId field only.
upsertWorkoutSet_idFieldOnly(prev, setData) ==
  LET sets == baseSessionOf(prev).sets
      sanitized == CsvSet(setData.exerciseId, "", setData.sets, setData.reps,
                          setData.weightKg, setData.rir)
  IN  IF \E k \in 1..Len(sets) : sets[k].exerciseId = setData.exerciseId
      THEN withSets(prev, [k \in 1..Len(sets) |->
                             IF sets[k].exerciseId = setData.exerciseId
                             THEN [sanitized EXCEPT !.exercise = sets[k].exercise]
                             ELSE sets[k]])
      ELSE withSets(prev, Append(sets, sanitized))

\* The draft log upsertWorkoutSet builds; { ...entry, ...sanitized } keeps
\* the legacy exercise field of the entry.
upsertWorkoutSet(prev, setData) ==
  LET sets == baseSessionOf(prev).sets
      index == findIndexOf(sets, setData.exerciseId)
      sanitized == CsvSet(setData.exerciseId, "", setData.sets, setData.reps,
                          setData.weightKg, setData.rir)
  IN  IF index > 0
      THEN withSets(prev, [k \in 1..Len(sets) |->
                             IF k = index
                             THEN [sanitized EXCEPT !.exercise = sets[k].exercise]
                             ELSE sets[k]])
      ELSE withSets(prev, Append(sets, sanitized))

updateWorkoutSet(prev, exerciseId, field, value) ==
  LET sets == baseSessionOf(prev).sets
      index == findIndexOf(sets, exerciseId)
  IN  IF index = 0 THEN prev
      ELSE withSets(prev, [k \in 1..Len(sets) |->
                             IF k = index THEN [sets[k] EXCEPT ![field] = value]
                             ELSE sets[k]])

removeWorkoutSet(prev, exerciseId) ==
  withSets(prev, SelectSeq(baseSessionOf(prev).sets,
                           LAMBDA entry : getWorkoutSetId(entry) # exerciseId))

\* Exercises offered by the form; "" is no selection.
FormExercises == {"", "jalon", "remo"}

\* Numbers typed into the form; an empty or invalid entry is read as 0.
FormNumbers == {0, 8}

FormFields == {"sets", "weightKg", "rir"}

\* Sessions the day starts with, their exercise ids pairwise distinct: no
\* session, no set, a legacy set, a legacy set next to a set with an id.
InitialWorkouts ==
  { <<>>,
    << [sets |-> <<>>] >>,
    << [sets |-> << CsvSet("", "jalon", 8, 8, 50, NULL) >>] >>,
    << [sets |-> << CsvSet("remo", "", 8, 8, 8, 2), CsvSet("", "jalon", 8, 8, 50, NULL) >>],
       [sets |-> << CsvSet("remo", "", 8, 8, 8, NULL) >>] >> }

InitWorkout ==
  /\ tz \in {z \in TimeZones : z.name = "UTC"}
  /\ fromDate = LastDay
  /\ state = getDefaultState
  /\ out = NoOut
  /\ storage = NoStorage
  /\ loaded = TRUE
  /\ draftLog \in {mkLog(LastDay, NULL, NULL, 0, NoMeals, w) : w \in InitialWorkouts}
  /\ host = NoHost
  /\ localStore = NoStorage

AddOrUpdateWorkout ==
  /\ \E exId \in FormExercises, sets \in FormNumbers, weightKg \in FormNumbers,
        rir \in {NULL, 2} :
        LET reps == 8
            setData == CsvSet(exId, "", sets, reps, weightKg, rir)
            accepted == exId # "" /\ sets # 0 /\ reps # 0 /\ weightKg # 0
        IN  /\ draftLog' = IF accepted THEN upsertWorkoutSet(draftLog, setData)
                           ELSE draftLog
            /\ out' = [fn |-> "addOrUpdateWorkout", exerciseId |-> exId,
                       accepted |-> accepted,
                       index |-> findIndexOf(baseSessionOf(draftLog).sets, exId)]
  /\ UNCHANGED <<state, fromDate, tz, storage, loaded, host, localStore>>

\* The inputs of a listed entry call updateWorkoutSet with the id of the entry.
UpdateWorkoutSet ==
  /\ \E k \in 1..Len(baseSessionOf(draftLog).sets), field \in FormFields,
        value \in FormNumbers \cup {NULL} :
        /\ value = NULL => field = "rir"
        /\ draftLog' = updateWorkoutSet(draftLog,
                                        getWorkoutSetId(baseSessionOf(draftLog).sets[k]),
                                        field, value)
  /\ out' = [fn |-> "updateWorkoutSet"]
  /\ UNCHANGED <<state, fromDate, tz, storage, loaded, host, localStore>>

RemoveWorkoutSet ==
  /\ \E k \in 1..Len(baseSessionOf(draftLog).sets) :
        draftLog' = removeWorkoutSet(draftLog,
                                     getWorkoutSetId(baseSessionOf(draftLog).sets[k]))
  /\ out' = [fn |-> "removeWorkoutSet"]
  /\ UNCHANGED <<state, fromDate, tz, storage, loaded, host, localStore>>

NextWorkout == AddOrUpdateWorkout \/ UpdateWorkoutSet \/ RemoveWorkoutSet

SpecWorkout == InitWorkout /\ [][NextWorkout]_vars

SessionSets == baseSessionOf(draftLog).sets

DistinctExercises(sets) ==
  \A i, j \in 1..Len(sets) : i # j => getWorkoutSetId(sets[i]) # getWorkoutSetId(sets[j])

\* C21: from a session with pairwise distinct exercise ids, every
\* addOrUpdateWorkout, updateWorkoutSet and removeWorkoutSet leaves at most
\* one set per exercise id (exerciseId, or the legacy exercise field); an
\* upsert of an exercise that is present updates the entry at its position,
\* leaves the number of sets unchanged and appends nothing.
C21_OneSetPerExercise ==
  [][ /\ DistinctExercises(SessionSets')
      /\ (out'.fn = "addOrUpdateWorkout" /\ out'.accepted /\ out'.index > 0) =>
            /\ Len(SessionSets') = Len(SessionSets)
            /\ getWorkoutSetId(SessionSets'[out'.index]) = out'.exerciseId
            /\ \A k \in 1..Len(SessionSets) : k # out'.index => SessionSets'[k] = SessionSets[k]
    ]_vars

\* An upsert has updated a legacy entry in place, next to another entry.
C21_Witness ==
  /\ out.fn = "addOrUpdateWorkout"
  /\ out.accepted /\ out.index > 0
  /\ Len(SessionSets) >= 2
  /\ SessionSets[out.index].exercise = out.exerciseId
  /\ SessionSets[out.index].exerciseId = out.exerciseId
  /\ SessionSets[out.index].weightKg = 8

(***************************************************************************)
(* The daily form: the draft of the active date, its autosave and its      *)
(* commit, and the import of a file.                                       *)
(***************************************************************************)
\* Dates the date input is set to.
JournalDates == RefDates

\* Values typed into the form.
FormMeals == {<<>>, FullMeals}

\* A log of a file: its adherence record is the one the file holds.
FileLog(date, meals, nutritionPercent) ==
  withAdherence(mkLog(date, NULL, NULL, 0, meals, NoWorkout),
                [nutritionPercent |-> nutritionPercent, kpiFlags |-> {}])

\* Files given to importJson: one that repeats a date and holds a weekly
\* record, one with a log and a draft.
ImportFiles ==
  { [logs |-> << FileLog(LastDay - 1, <<>>, 55), FileLog(LastDay - 2, FullMeals, 100),
                 FileLog(LastDay - 1, FullMeals, 100) >>,
     weeklyMeasurements |-> << mkWeekly(LastDay - 7, 7260, NULL, NULL) >>,
     draftByDate |-> NoDrafts],
    [logs |-> << FileLog(LastDay, FullMeals, 100) >>,
     weeklyMeasurements |-> <<>>,
     draftByDate |-> [d \in {LastDay - 1} |-> FileLog(LastDay - 1, FullMeals, 100)]] }

\* What an earlier session left in the storage: nothing, or the state after
\* an import and a commit.
StoredJournals ==
  { NoStorage,
    [present |-> TRUE,
     logs |-> << FileLog(LastDay - 1, <<>>, 55),
                 currentOf(createEmptyLog(LastDay), LastDay) >>,
     weeklyMeasurements |-> <<>>,
     draftByDate |-> NoDrafts] }

InitJournal ==
  /\ tz \in {z \in TimeZones : z.name = "UTC"}
  /\ fromDate = LastDay
  /\ state = getDefaultState
  /\ out = NoOut
  /\ storage \in StoredJournals
  /\ loaded = FALSE
  /\ draftLog = createEmptyLog(LastDay)
  /\ host = HostAtMount(LastDay)
  /\ localStore = NoStorage

\* The date input: setActiveDate and the effect that follows the change of
\* the date.  Before the load has finished the effect returns early and runs
\* again after it, with the same result.
SetActiveDate ==
  /\ loaded
  /\ \E date \in JournalDates \ {fromDate} :
        LET selected == getDraftBaseForDate(state, date)
            currentDraft == withAdherence(selected, computeDayAdherence(selected))
        IN  /\ fromDate' = date
            /\ draftLog' = currentDraft
            /\ host' = [host EXCEPT !.draftAutosaveTimer =
                                      draftAutosaveTimerOf(currentDraft, date),
                                    !.draftDirty = FALSE,
                                    !.draftSourceDate = date]
            /\ out' = [fn |-> "setActiveDate"]
  /\ UNCHANGED <<state, tz, storage, loaded, localStore>>

\* updateDraft('meals', value) and the autosave effect of the next render.
UpdateDraft ==
  /\ \E value \in FormMeals \ {draftLog.meals} :
        LET next == [draftLog EXCEPT !.meals = value]
        IN  /\ draftLog' = next
            /\ host' = [host EXCEPT !.draftDirty = TRUE,
                                    !.committed = {},
                                    !.draftAutosaveTimer =
                                      IF loaded THEN draftAutosaveTimerOf(next, fromDate)
                                      ELSE @]
  /\ out' = [fn |-> "updateDraft"]
  /\ UNCHANGED <<state, fromDate, tz, storage, loaded, localStore>>

\* The callback of the draft autosave timer, 600 ms after it was started.
DraftAutosave ==
  /\ host.draftAutosaveTimer.pending
  /\ state' = [state EXCEPT !.draftByDate =
                 withEntry(@, host.draftAutosaveTimer.activeDate,
                           host.draftAutosaveTimer.current)]
  /\ host' = [host EXCEPT !.draftAutosaveTimer = NoTimer]
  /\ out' = [fn |-> "draftAutosave"]
  /\ UNCHANGED <<fromDate, tz, storage, loaded, draftLog, localStore>>

SaveDraft ==
  /\ LET cleaned == currentOf(draftLog, fromDate)
     IN  /\ state' = [state EXCEPT !.logs = saveDraftLogs(@, fromDate, cleaned),
                                   !.draftByDate = withoutEntry(@, fromDate)]
         /\ out' = [fn |-> "saveDraft",
                    existing |-> \E k \in 1..Len(state.logs) : state.logs[k].date = fromDate]
  /\ host' = [host EXCEPT !.draftDirty = FALSE, !.committed = {fromDate}]
  /\ UNCHANGED <<fromDate, tz, storage, loaded, draftLog, localStore>>

\* importJson with a file that holds logs and drafts.
ImportJsonFile ==
  /\ \E raw \in ImportFiles :
        /\ state' = importJson(state, raw)
        /\ host' = [host EXCEPT !.committed = @ \ DOMAIN raw.draftByDate]
        /\ out' = [fn |-> "importJson", raw |-> raw]
  /\ UNCHANGED <<fromDate, tz, storage, loaded, draftLog, localStore>>

NextJournal ==
  Load \/ SetActiveDate \/ UpdateDraft \/ DraftAutosave \/ SaveDraft \/ ImportJsonFile

SpecJournal == InitJournal /\ [][NextJournal]_vars

HasDate(logs, date) == \E k \in 1..Len(logs) : logs[k].date = date

\* C22: state.logs holds at most one log per date in every state reached
\* from the empty default state; saveDraft for a date that has a log puts the
\* committed log in its place and appends it otherwise; importJson keeps
\* every existing log where it is and adds, after them, an incoming log only
\* when no log has its date.
C22_OneLogPerDate ==
  [][ /\ DistinctDates(state'.logs)
      /\ out'.fn = "saveDraft" =>
           IF HasDate(state.logs, fromDate)
           THEN /\ Len(state'.logs) = Len(state.logs)
                /\ \A k \in 1..Len(state.logs) :
                      IF state.logs[k].date = fromDate
                      THEN /\ state'.logs[k].date = fromDate
                           /\ state'.logs[k].meals = draftLog.meals
                      ELSE state'.logs[k] = state.logs[k]
           ELSE /\ Len(state'.logs) = Len(state.logs) + 1
                /\ SubSeq(state'.logs, 1, Len(state.logs)) = state.logs
                /\ state'.logs[Len(state'.logs)].date = fromDate
                /\ state'.logs[Len(state'.logs)].meals = draftLog.meals
      /\ out'.fn = "importJson" =>
           /\ Len(state'.logs) >= Len(state.logs)
           /\ SubSeq(state'.logs, 1, Len(state.logs)) = state.logs
           /\ \A k \in (Len(state.logs) + 1)..Len(state'.logs) :
                 /\ ~HasDate(state.logs, state'.logs[k].date)
                 /\ \E i \in 1..Len(out'.raw.logs) : out'.raw.logs[i] = state'.logs[k]
           /\ \A i \in 1..Len(out'.raw.logs) : HasDate(state'.logs, out'.raw.logs[i].date)
    ]_vars

\* A commit that replaced the log of its date in a list that imports and
\* commits have filled.
C22_Witness ==
  /\ out.fn = "saveDraft"
  /\ out.existing
  /\ Len(state.logs) = 3
  /\ state.logs[1].date = LastDay - 1
  /\ state.logs[1].meals = FullMeals

\* C23: in every reachable state each log of state.logs carries the
\* adherence record computeDayAdherence gives for the log, after any sequence
\* of saveDraft, importJson and load.
C23_AdherenceRecomputed ==
  \A k \in 1..Len(state.logs) :
     state.logs[k].adherence = computeDayAdherence(state.logs[k])

\* C28: once saveDraft has committed the draft of a date and no edit has
\* followed, state.draftByDate has no entry for the date.
C28_NoDraftAfterCommit ==
  \A date \in host.committed : date \notin DOMAIN state.draftByDate

(***************************************************************************)
(* Repeated calls of the engine: the host computes the summary again after *)
(* every change of the state, with the snapshot before the change still    *)
(* referenced.                                                             *)
(***************************************************************************)
\* Largest number of calls of calculateKpis.
MaxCalls == 3

\* Mutant: the rows are sorted where they are stored.
logsAfterCall_sortInPlace(st) == sortBy(st.logs, "date", TRUE)

\* state.logs after a call: filterRange builds new arrays with
\* Array.prototype.filter, lastNumberFor and hasConsecutivePainSpike sort
\* spread copies of them, and nothing else writes to an array.
logsAfterCall(st) == st.logs

\* state.weeklyMeasurements after a call: filterWeeklyRange builds new arrays
\* and lastWeeklyNumber sorts a spread copy.
weeklyAfterCall(st) == st.weeklyMeasurements

NotKnown == [known |-> FALSE]

InitCalls ==
  /\ tz \in TimeZones
  /\ fromDate \in RefDates
  /\ state \in {st \in Snapshots(TrendLogSlots, TrendWeeklySlots) :
                  /\ Len(st.logs) = 3
                  /\ Len(st.weeklyMeasurements) = 1
                  /\ st.logs[1].date = 27 => /\ st.logs[1].waistCm = 8800
                                             /\ st.logs[1].workout = Workout(80)}
  /\ out = NoOut
  /\ storage = NoStorage
  /\ loaded = TRUE
  /\ draftLog = NoDraft
  /\ host = [other |-> [state EXCEPT !.logs = SubSeq(@, 1, Len(@) - 1)],
             id |-> 1, calls |-> 0, memo |-> <<NotKnown, NotKnown>>]
  /\ localStore = NoStorage

\* useMemo(() => calculateKpis(state, new Date(activeDate)), [state, activeDate])
Recalculate ==
  /\ host.calls < MaxCalls
  /\ LET summary == calculateKpis(tz, state, DateOf(fromDate))
     IN  /\ out' = [fn |-> "calculateKpis", val |-> summary]
         /\ host' = [host EXCEPT !.calls = @ + 1,
                                 !.memo[host.id] =
                                   IF @.known THEN @ ELSE [known |-> TRUE, val |-> summary]]
  /\ state' = [state EXCEPT !.logs = logsAfterCall(state),
                            !.weeklyMeasurements = weeklyAfterCall(state)]
  /\ UNCHANGED <<fromDate, tz, storage, loaded, draftLog, localStore>>

\* The host passes the other snapshot: the one before the last change, or
\* the one after it.
SetState ==
  /\ state' = host.other
  /\ host' = [host EXCEPT !.other = state, !.id = 3 - @]
  /\ out' = [fn |-> "setState"]
  /\ UNCHANGED <<fromDate, tz, storage, loaded, draftLog, localStore>>

NextCalls == Recalculate \/ SetState

SpecCalls == InitCalls /\ [][NextCalls]_vars

toWeekEnd(z, weekStart) == toISODate(addDays(z, UTC(z, DateOf(weekStart)), 6))

getWeekBounds(z, referenceDate) ==
  LET weekStart == toWeekStart(z, referenceDate)
  IN  [weekStart |-> weekStart, weekEnd |-> toWeekEnd(z, weekStart)]

\* Reference dates of the export: every day from the second week on.
WeekDates == 7..LastDay

InitWeek ==
  /\ tz \in TimeZones
  /\ fromDate \in WeekDates
  /\ state = getDefaultState
  /\ out = NoOut
  /\ storage = NoStorage
  /\ loaded = TRUE
  /\ draftLog = NoDraft
  /\ host = NoHost
  /\ localStore = NoStorage

GetWeekBounds ==
  /\ out = NoOut
  /\ out' = [fn |-> "getWeekBounds", date |-> fromDate, val |-> getWeekBounds(tz, fromDate)]
  /\ UNCHANGED <<state, fromDate, tz, storage, loaded, draftLog, host, localStore>>

\* toWeekStart of the reference date, and of the week start it returned.
ToWeekStart ==
  /\ \E date \in IF out = NoOut THEN {fromDate}
                 ELSE IF out.fn = "toWeekStart" /\ out.date = fromDate THEN {out.val}
                 ELSE {} :
        out' = [fn |-> "toWeekStart", date |-> date, val |-> toWeekStart(tz, date)]
  /\ UNCHANGED <<state, fromDate, tz, storage, loaded, draftLog, host, localStore>>

NextWeek == GetWeekBounds \/ ToWeekStart

SpecWeek == InitWeek /\ [][NextWeek]_vars

\* The most recent Monday on or before the date (day 0 is a Sunday).
MondayOnOrBefore(date) == date - ((getDay(date) + 6) % 7)

\* C25: getWeekBounds returns weekStart = the most recent Monday on or before
\* the reference date and weekEnd = weekStart + 6 days, so that the reference
\* date lies between them, and toWeekStart returns that Monday for every date
\* of the week, the Monday itself included.
C25_WeekBounds ==
  /\ out.fn = "getWeekBounds" =>
        /\ out.val.weekStart = MondayOnOrBefore(out.date)
        /\ out.val.weekEnd = out.val.weekStart + 6
        /\ out.val.weekStart <= out.date /\ out.date <= out.val.weekEnd
  /\ out.fn = "toWeekStart" =>
        /\ out.val = MondayOnOrBefore(out.date)
        /\ toWeekStart(tz, out.val) = out.val

(***************************************************************************)
(* Persistence across sessions: the IndexedDB record is `storage`, the     *)
(* localStorage key is `localStore`.                                       *)
(***************************************************************************)
InitPersist ==
  /\ tz \in {z \in TimeZones : z.name = "UTC"}
  /\ fromDate \in RefDates
  /\ state = getDefaultState
  /\ out = NoOut
  /\ storage = NoStorage
  /\ loaded = FALSE
  /\ draftLog = createEmptyLog(fromDate)
  /\ host = HostAtMount(fromDate)
  /\ localStore = NoStorage

\* The page is opened again: the app is constructed anew, the two stores
\* keep what they hold.
Reopen ==
  /\ loaded
  /\ state' = getDefaultState
  /\ loaded' = FALSE
  /\ draftLog' = createEmptyLog(fromDate)
  /\ host' = [HostAtMount(fromDate) EXCEPT !.lastSaveSource = host.lastSaveSource]
  /\ out' = [fn |-> "reopen"]
  /\ UNCHANGED <<fromDate, tz, storage, localStore>>

NextPersist == Load \/ Save \/ SaveWeekly \/ Reopen

SpecPersist == InitPersist /\ [][NextPersist]_vars

\* The document the last saveAppState wrote.
LastSaved == IF host.lastSaveSource = "indexeddb" THEN storage ELSE localStore

\* C26: after a saveAppState has returned, the next loadAppState returns the
\* logs and the weekly measurements of the state that was saved, whether
\* IndexedDB worked or failed at the save and at the load.
C26_RoundTrip ==
  [][ (out'.fn = "load" /\ host.lastSaveSource # "none") =>
         /\ state'.logs = LastSaved.logs
         /\ state'.weeklyMeasurements = LastSaved.weeklyMeasurements
    ]_vars

(***************************************************************************)
(* The debounced save.  A call of safeSaveDebounced is numbered by its     *)
(* place among the calls; its promise and its timer carry that number.     *)
(* host.timers holds the timeouts that have been set and neither cleared   *)
(* nor run; promises, saves and callStates record what the calls returned, *)
(* which saveAppState calls were started and what each call passed.        *)
(***************************************************************************)
\* Largest number of calls of safeSaveDebounced.
MaxSaveCalls == 3

\* Weights of the weekly record of the states passed to the calls.
SaveWeights == {7100, 7200}

NoDebounce ==
  [timers |-> {}, saveDebounceTimer |-> 0, pendingSaveResolvers |-> <<>>,
   promises |-> <<>>, saves |-> <<>>, callStates |-> <<>>]

\* Mutant: the timer of the previous call is not cleared.
safeSaveDebounced_noClear(h, st) ==
  LET id == Len(h.promises) + 1
  IN  [h EXCEPT !.timers = @ \cup {[id |-> id, state |-> st]},
                !.saveDebounceTimer = id,
                !.pendingSaveResolvers = Append(@, id),
                !.promises = Append(@, [status |-> "pending"]),
                !.callStates = Append(@, st)]

\* The module state after safeSaveDebounced(st, delay).
safeSaveDebounced(h, st) ==
  LET id == Len(h.promises) + 1
      kept == IF h.saveDebounceTimer # 0
              THEN {t \in h.timers : t.id # h.saveDebounceTimer}
              ELSE h.timers
  IN  [h EXCEPT !.timers = kept \cup {[id |-> id, state |-> st]},
                !.saveDebounceTimer = id,
                !.pendingSaveResolvers = Append(@, id),
                !.promises = Append(@, [status |-> "pending"]),
                !.callStates = Append(@, st)]

InitDebounce ==
  /\ tz \in {z \in TimeZones : z.name = "UTC"}
  /\ fromDate = LastDay
  /\ state = getDefaultState
  /\ out = NoOut
  /\ storage = NoStorage
  /\ loaded = TRUE
  /\ draftLog = NoDraft
  /\ host = NoDebounce
  /\ localStore = NoStorage

\* A change of the state and the save effect that follows it:
\* safeSaveDebounced(state, 500).
SafeSaveDebounced ==
  /\ Len(host.promises) < MaxSaveCalls
  /\ \E weight \in SaveWeights :
        LET st == [getDefaultState EXCEPT !.weeklyMeasurements =
                     << mkWeekly(LastDay - 7, weight, NULL, NULL) >>]
        IN  /\ state' = st
            /\ host' = safeSaveDebounced(host, st)
  /\ out' = [fn |-> "safeSaveDebounced"]
  /\ UNCHANGED <<fromDate, tz, storage, loaded, draftLog, localStore>>

\* The callback of a timeout whose delay has elapsed: it takes the pending
\* resolvers and starts saveAppState with the state of its call.
SaveDebounceTimeout ==
  /\ \E t \in host.timers :
        host' = [host EXCEPT !.timers = @ \ {t},
                             !.saveDebounceTimer = 0,
                             !.pendingSaveResolvers = <<>>,
                             !.saves = Append(@, [state |-> t.state, timer |-> t.id,
                                                  resolvers |-> host.pendingSaveResolvers,
                                                  calls |-> Len(host.promises),
                                                  result |-> "running"])]
  /\ out' = [fn |-> "saveAppState"]
  /\ UNCHANGED <<state, fromDate, tz, storage, loaded, draftLog, localStore>>

\* A saveAppState that was started settles: it has written to IndexedDB, or
\* to localStorage after IndexedDB failed, or it rejects because the write to
\* localStorage threw as well; its resolvers are resolved or rejected.
SaveSettles ==
  /\ \E s \in 1..Len(host.saves), source \in {"indexeddb", "localstorage", "rejected"} :
        /\ host.saves[s].result = "running"
        /\ LET saved == IF source = "rejected" THEN [idb |-> storage, local |-> localStore]
                        ELSE saveAppState(source = "indexeddb", host.saves[s].state,
                                          storage, localStore)
               ids == {host.saves[s].resolvers[k] : k \in 1..Len(host.saves[s].resolvers)}
           IN  /\ storage' = saved.idb
               /\ localStore' = saved.local
               /\ host' = [host EXCEPT
                             !.saves[s].result = source,
                             !.promises = [k \in 1..Len(@) |->
                                             IF k \in ids
                                             THEN [status |-> IF source = "rejected"
                                                              THEN "rejected" ELSE "resolved",
                                                   result |-> source]
                                             ELSE @[k]]]
  /\ out' = [fn |-> "settled"]
  /\ UNCHANGED <<state, fromDate, tz, loaded, draftLog>>

NextDebounce == SafeSaveDebounced \/ SaveDebounceTimeout \/ SaveSettles

SpecDebounce == InitDebounce /\ [][NextDebounce]_vars

\* The event loop runs the callback of a timeout that is due, and a
\* saveAppState that was started settles.
SpecDebounceLive ==
  SpecDebounce /\ WF_vars(SaveDebounceTimeout) /\ WF_vars(SaveSettles)

\* The calls of the burst that ended with save s: every call after the calls
\* of the save before it.
BurstOf(s) ==
  LET first == IF s = 1 THEN 1 ELSE host.saves[s - 1].calls + 1
  IN  [k \in 1..(host.saves[s].calls - first + 1) |-> first + k - 1]

OneSavePerBurst ==
  /\ Cardinality(host.timers) <= 1
  /\ \A s \in 1..Len(host.saves) :
        /\ BurstOf(s) # <<>>
        /\ host.saves[s].resolvers = BurstOf(s)
        /\ host.saves[s].timer = host.saves[s].calls
        /\ host.saves[s].state = host.callStates[host.saves[s].calls]
  /\ \A k \in 1..Len(host.promises) :
        host.promises[k].status # "pending" =>
          \E s \in 1..Len(host.saves) :
             /\ \E i \in 1..Len(BurstOf(s)) : BurstOf(s)[i] = k
             /\ host.saves[s].result # "running"
             /\ host.promises[k].result = host.saves[s].result
             /\ host.promises[k].status =
                  IF host.saves[s].result = "rejected" THEN "rejected" ELSE "resolved"

AllSettled == \A k \in 1..Len(host.promises) : host.promises[k].status # "pending"

\* C27: for every burst of calls of safeSaveDebounced, saveAppState is
\* started once, by the timer of the last call and with the state the last
\* call passed; every promise of the burst is settled with the result of that
\* save, and once the calls stop no promise stays pending.
C27_OneSavePerBurst == []OneSavePerBurst /\ <>[]AllSettled

\* A burst of two calls with different states, saved to localStorage, and
\* a second burst of one call, all promises settled.
C27_Witness ==
  /\ Len(host.promises) = 3
  /\ Len(host.saves) = 2
  /\ Len(host.saves[1].resolvers) = 2
  /\ host.callStates[1] # host.callStates[2]
  /\ host.saves[1].result = "localstorage"
  /\ AllSettled

(***************************************************************************)
(* The current and the prior window of the trends and of the decision.     *)
(***************************************************************************)
\* The two windows of `days` days and the rows filtered into them, as decide
\* and calculateKpis build them.
trendWindows(z, st, days, from) ==
  LET current == getRange(z, days, from)
      prior == getRange(z, days, addDays(z, from, -days))
  IN  [current |-> current, prior |-> prior,
       rows |-> filterRange(st.logs, current),
       prevRows |-> filterRange(st.logs, prior),
       weekly |-> filterWeeklyRange(st.weeklyMeasurements, current),
       prevWeekly |-> filterWeeklyRange(st.weeklyMeasurements, prior)]

\* Rows on both sides of the boundary between the two 7-day windows and at
\* the far ends of the 14-day windows.
WindowDates == <<LastDay - 8, LastDay - 7, LastDay - 6, LastDay - 14, LastDay, LastDay - 28>>

WindowLogSlots ==
  [k \in 1..Len(WindowDates) |->
     { mkLog(WindowDates[k], NULL, NULL, 0, NoMeals, NoWorkout) }]

WindowWeeklySlots ==
  << { mkWeekly(LastDay - 8, 7300, NULL, NULL), mkWeekly(LastDay - 7, 7300, NULL, NULL) } >>

InitWindows ==
  /\ tz \in TimeZones
  /\ fromDate \in RefDates
  /\ state \in Snapshots(WindowLogSlots, WindowWeeklySlots)
  /\ out = NoOut
  /\ storage = NoStorage
  /\ loaded = TRUE
  /\ draftLog = NoDraft
  /\ host = NoHost
  /\ localStore = NoStorage

TrendWindows ==
  /\ out = NoOut
  /\ \E days \in {7, 14} :
        out' = [fn |-> "trendWindows", days |-> days,
                val |-> trendWindows(tz, state, days, DateOf(fromDate))]
  /\ UNCHANGED <<state, fromDate, tz, storage, loaded, draftLog, host, localStore>>

NextWindows == TrendWindows

SpecWindows == InitWindows /\ [][NextWindows]_vars

\* The number of times the row occurs in the list.
Occurrences(rows, row) == Cardinality({k \in 1..Len(rows) : rows[k] = row})

\* C29: for N in {7, 14} every date of the 2N days that end on the reference
\* date lies in exactly one of the current and the prior window, and every
\* log and weekly measurement dated in that span is filtered into exactly one
\* of the two.
C29_WindowsPartition ==
  out.fn = "trendWindows" =>
    LET w == out.val
        span == (fromDate - 2 * out.days + 1)..fromDate
    IN  /\ \A date \in span :
              isInRange(date, w.current.start, w.current.end)
                # isInRange(date, w.prior.start, w.prior.end)
        /\ \A k \in 1..Len(state.logs) :
              state.logs[k].date \in span =>
                Occurrences(w.rows, state.logs[k])
                  + Occurrences(w.prevRows, state.logs[k]) = 1
        /\ \A k \in 1..Len(state.weeklyMeasurements) :
              state.weeklyMeasurements[k].weekStart \in span =>
                Occurrences(w.weekly, state.weeklyMeasurements[k])
                  + Occurrences(w.prevWeekly, state.weeklyMeasurements[k]) = 1

(***************************************************************************)
(* The 14-day report against the decision it carries.                      *)
(***************************************************************************)
\* C30: in every summary calculateKpis returns, the decision down150kcal
\* comes with kpis14.adherence >= 80 and a kpis14.waistTrend that is a number
\* and >= 0, and kpis14.perfIndex is the value decide compared with -0.05:
\* it is below -0.05 when the decision is up125kcal without a weight drop
\* above 0.6 kg, and not below it when the decision is none.
C30_SummaryAgrees ==
  out.fn = "calculateKpis" =>
    LET kpis14 == out.val.kpis14
    IN  /\ kpis14.decision = "down150kcal" =>
              /\ kpis14.adherence >= 80
              /\ kpis14.waistTrend # NULL
              /\ kpis14.waistTrend >= 0
        /\ kpis14.perfIndex = Perf
        /\ kpis14.decision = decide(tz, state, DateOf(fromDate)).decision
        /\ kpis14.decision = "none" => kpis14.perfIndex >= -50
        /\ (kpis14.decision = "up125kcal" /\ weightDrop(ThisWeight, PrevWeight) <= 60) =>
              kpis14.perfIndex < -50

\* The calorie reduction reported with an unchanged waist and an adherence of
\* at least 80.
C30_Witness ==
  /\ out.fn = "calculateKpis"
  /\ out.val.kpis14.decision = "down150kcal"
  /\ out.val.kpis14.waistTrend = 0
  /\ out.val.kpis14.adherence >= 80

\* The performance rule alone, reported with the index it compared.
C30_WitnessPerf ==
  /\ out.fn = "calculateKpis"
  /\ out.val.kpis14.decision = "up125kcal"
  /\ weightDrop(ThisWeight, PrevWeight) <= 60
  /\ out.val.kpis14.perfIndex < -50


====
